---- MODULE Spec2Model ----
(***************************************************************************)
(* Bull-Mart backend: the User model (password hashing, login lockout),    *)
(* the auth routes, the product service and the product routes, as state   *)
(* machines over the two MongoDB collections.                              *)
(*                                                                         *)
(* Time is counted in hours.  A request is one atomic action unless a      *)
(* specification is about the interleaving of its database round trips.    *)
(***************************************************************************)
EXTENDS Integers, Sequences, FiniteSets, TLC

VARIABLES
    users,        \* the users collection: _id -> document
    products,     \* the products collection: _id -> document
    nextPid,      \* the next product _id the driver generates
    now,          \* Date.now(), in hours
    loginHits,    \* loginLimiter: requests of the client IP in the current window
    regHits,      \* registerLimiter: requests of the client IP in the current window
    resp,         \* the response to the request of the last step, if it was one
    fails,        \* history: failed password checks since registration / last success
    sinceExpiry,  \* history: failed password checks since one found an expired lock
    plain,        \* history: the plaintext password each user chose last
    creator,      \* history: the user each product was created by
    held,         \* the tokens each user's client received last
    reg           \* the requests in flight, each between two database round trips

vars == <<users, products, nextPid, now, loginHits, regHits, resp,
          fails, sinceExpiry, plain, creator, held, reg>>

-----------------------------------------------------------------------------
(* Bounds of the model *)

MaxTime == 3
MaxUsers == 2
MaxProducts == 2

(* Program constants *)

LockDuration == 2
MaxLoginAttempts == 5
LoginMax == 5
RegisterMax == 3
EmailTokenHours == 24
ResetTokenHours == 1
AuthTokenHours == 168
MinPasswordLength == 8

Unset == -1
Missing == "<missing>"

UserIds == 1..MaxUsers
Times == 0..MaxTime

-----------------------------------------------------------------------------
(* Request inputs *)

EmailInputs == {"a@x.com", "A@X.com", "b@x.com"}
Passwords == {"Abcdef12", "Zyxwvu98"}
ShortPassword == "Abc1"

\* String.prototype.toLowerCase on the addresses above
Lower(e) == IF e = "A@X.com" THEN "a@x.com" ELSE e

-----------------------------------------------------------------------------
(* Strings that may be bcrypt hashes: rounds = 0 is the bare text, rounds = n
   is bcrypt.hash applied n times on top of it.  The salt does not change
   what bcrypt.compare answers and is left out. *)

Text(s) == [rounds |-> 0, text |-> s]

BcryptHash(p) == [rounds |-> p.rounds + 1, text |-> p.text]

BcryptCompare(candidate, stored) == stored.rounds = 1 /\ stored.text = candidate

\* jwt.sign: the payload that jwt.verify hands back, with the expiry time
Token(id, type, role, exp) == [id |-> id, type |-> type, role |-> role, exp |-> exp]

NoToken == Token(0, "none", "none", Unset)

-----------------------------------------------------------------------------
(* models/User *)

NewUser(name, email, password, t) ==
    [ name |-> name,
      email |-> Lower(email),
      password |-> Text(password),
      role |-> "user",
      productsListed |-> 0,
      bio |-> "",
      lastActive |-> t,
      lastPasswordChange |-> t,
      emailVerified |-> FALSE,
      emailVerificationToken |-> NoToken,
      emailVerificationExpires |-> Unset,
      passwordResetToken |-> NoToken,
      passwordResetExpires |-> Unset,
      loginAttempts |-> 0,
      lockUntil |-> Unset ]

UserFields == DOMAIN NewUser("Ann", "a@x.com", "Abcdef12", 0)

\* schema validation run by save(): password minlength
ValidUser(doc) == doc.password.rounds > 0 \/ Len(doc.password.text) >= MinPasswordLength

PreSaveAlwaysHash(doc, modified, t) ==
    [doc EXCEPT !.password = BcryptHash(@), !.lastPasswordChange = t]

\* userSchema.pre('save'): hash the password if it was modified
PreSave(doc, modified, t) ==
    IF "password" \notin modified THEN doc
    ELSE [doc EXCEPT !.password = BcryptHash(@), !.lastPasswordChange = t]

\* isModified('password') after the assignment user.password = value
PasswordModified(doc, value) == IF doc.password # Text(value) THEN {"password"} ELSE {}

ComparePassword(doc, candidate) == BcryptCompare(candidate, doc.password)

GenerateAuthToken(id, doc, t) == Token(id, "auth", doc.role, t + AuthTokenHours)

GenerateEmailVerificationToken(id, doc, t) ==
    [doc EXCEPT !.emailVerificationToken =
                    Token(id, "email-verification", "none", t + EmailTokenHours),
                !.emailVerificationExpires = t + EmailTokenHours]

GeneratePasswordResetToken(id, doc, t) ==
    [doc EXCEPT !.passwordResetToken =
                    Token(id, "password-reset", "none", t + ResetTokenHours),
                !.passwordResetExpires = t + ResetTokenHours]

IsLockedNever(doc, t) == FALSE

IsLocked(doc, t) == doc.lockUntil # Unset /\ doc.lockUntil > t

IncLoginAttemptsLockAtSix(doc, t) ==
    IF doc.lockUntil # Unset /\ doc.lockUntil < t
    THEN [doc EXCEPT !.lockUntil = Unset, !.loginAttempts = 1]
    ELSE IF doc.loginAttempts + 1 >= MaxLoginAttempts + 1 /\ ~IsLocked(doc, t)
         THEN [doc EXCEPT !.loginAttempts = @ + 1, !.lockUntil = t + LockDuration]
         ELSE [doc EXCEPT !.loginAttempts = @ + 1]

IncLoginAttemptsKeepCount(doc, t) ==
    IF doc.lockUntil # Unset /\ doc.lockUntil < t
    THEN [doc EXCEPT !.lockUntil = Unset, !.loginAttempts = @ + 1]
    ELSE IF doc.loginAttempts + 1 >= MaxLoginAttempts /\ ~IsLocked(doc, t)
         THEN [doc EXCEPT !.loginAttempts = @ + 1, !.lockUntil = t + LockDuration]
         ELSE [doc EXCEPT !.loginAttempts = @ + 1]

\* the update incLoginAttempts sends, applied to the stored document
IncLoginAttempts(doc, t) ==
    IF doc.lockUntil # Unset /\ doc.lockUntil < t
    THEN [doc EXCEPT !.lockUntil = Unset, !.loginAttempts = 1]
    ELSE IF doc.loginAttempts + 1 >= MaxLoginAttempts /\ ~IsLocked(doc, t)
         THEN [doc EXCEPT !.loginAttempts = @ + 1, !.lockUntil = t + LockDuration]
         ELSE [doc EXCEPT !.loginAttempts = @ + 1]

ResetLoginAttemptsKeepCount(doc, t) ==
    [doc EXCEPT !.lockUntil = Unset, !.lastActive = t]

\* $unset of loginAttempts: the schema default 0 is what is read back
ResetLoginAttempts(doc, t) ==
    [doc EXCEPT !.loginAttempts = 0, !.lockUntil = Unset, !.lastActive = t]

\* User.findByEmail: the ids of the stored users with that address
FindByEmail(e) == {u \in DOMAIN users : users[u].email = Lower(e)}

\* the _id of a new document
FreshUserId == CHOOSE u \in UserIds : u \notin DOMAIN users

-----------------------------------------------------------------------------
(* Responses *)

\* toObject() followed by delete of the given paths
Without(doc, paths) == [f \in (DOMAIN doc) \ paths |-> doc[f]]

NoDoc == Without(NewUser("Ann", "a@x.com", "Abcdef12", 0), UserFields)

\* what the caller gets back: the response of a route, or the outcome of a
\* service call (status 0, error "" when it returned, else the Error's message)
\* the rest of a JSON body, when there is none
NoBody == [f \in {} |-> 0]

Response(op, status, error) ==
    [op |-> op, status |-> status, error |-> error,
     user |-> NoDoc, token |-> NoToken, sellers |-> {}, body |-> NoBody]

NoResponse == Response("none", 0, "")

-----------------------------------------------------------------------------
(* History variables: they record what happened and steer nothing *)

HistCap == 6

Bump(n) == IF n < HistCap THEN n + 1 ELSE n

Expired(doc, t) == doc.lockUntil # Unset /\ doc.lockUntil < t

NoteFailure(u) ==
    /\ fails' = [fails EXCEPT ![u] = Bump(@)]
    /\ sinceExpiry' = [sinceExpiry EXCEPT ![u] =
                          IF Expired(users[u], now) THEN 1
                          ELSE IF @ > 0 THEN Bump(@) ELSE 0]

NoteSuccess(u) ==
    /\ fails' = [fails EXCEPT ![u] = 0]
    /\ sinceExpiry' = [sinceExpiry EXCEPT ![u] = 0]

-----------------------------------------------------------------------------
(* routes/auth: POST /register *)

\* express-rate-limit: the request is counted, and refused once the count
\* of the window exceeds max
Limited(hits, max) == hits >= max

Count(hits, max) == IF hits > max THEN hits ELSE hits + 1

\* the document after the two saves of the handler
RegisteredUser(id, name, email, password, t) ==
    LET first  == PreSave(NewUser(name, email, password, t), UserFields, t)
        second == PreSave(GenerateEmailVerificationToken(id, first, t),
                          {"emailVerificationToken", "emailVerificationExpires"}, t)
    IN  second

\* the client's tokens after registration: the auth token of the response and
\* the verification token sent by mail
Received(id, doc, t) ==
    [auth |-> GenerateAuthToken(id, doc, t),
     verify |-> doc.emailVerificationToken,
     reset |-> NoToken]

RegisterResponse(id, doc, t) ==
    [Response("register", 201, "") EXCEPT
        !.user = Without(doc, {"password", "emailVerificationToken",
                               "emailVerificationExpires"}),
        !.token = GenerateAuthToken(id, doc, t)]

Register(name, email, password) ==
    /\ regHits' = Count(regHits, RegisterMax)
    /\ UNCHANGED <<products, nextPid, now, loginHits, fails, sinceExpiry,
                   creator, reg>>
    /\ IF Limited(regHits, RegisterMax)
       THEN /\ resp' = Response("register", 429, "Too many registration attempts")
            /\ UNCHANGED <<users, plain, held>>
       ELSE IF name = Missing \/ email = Missing \/ password = Missing
       THEN /\ resp' = Response("register", 400, "Name, email, and password are required")
            /\ UNCHANGED <<users, plain, held>>
       ELSE IF FindByEmail(email) # {}
       THEN /\ resp' = Response("register", 400, "Email already registered")
            /\ UNCHANGED <<users, plain, held>>
       ELSE IF ~ValidUser(NewUser(name, email, password, now))
       THEN /\ resp' = Response("register", 400, "ValidationError")
            /\ UNCHANGED <<users, plain, held>>
       ELSE LET id  == FreshUserId
                doc == RegisteredUser(id, name, email, password, now)
            IN  /\ users' = (id :> doc) @@ users
                /\ plain' = [plain EXCEPT ![id] = password]
                /\ held' = [held EXCEPT ![id] = Received(id, doc, now)]
                /\ resp' = RegisterResponse(id, doc, now)

-----------------------------------------------------------------------------
(* routes/auth: POST /register as its three database round trips, for
   requests that run concurrently *)

MaxRequests == 2

RequestIds == 1..MaxRequests

EmailIndexNotUnique(email) == FALSE

\* the unique index on email: is the value in the index already
EmailTaken(email) == \E u \in DOMAIN users : users[u].email = email

RegUnchanged ==
    UNCHANGED <<products, nextPid, now, loginHits, fails, sinceExpiry, creator>>

Done(r) == [q \in (DOMAIN reg) \ {r} |-> reg[q]]

\* the limiter, the required fields, User.findByEmail and new User(...)
RegisterCheck(r, name, email, password) ==
    /\ r \notin DOMAIN reg
    /\ RegUnchanged
    /\ regHits' = Count(regHits, RegisterMax)
    /\ UNCHANGED <<users, plain, held>>
    /\ IF Limited(regHits, RegisterMax)
       THEN /\ resp' = Response("register", 429, "Too many registration attempts")
            /\ reg' = reg
       ELSE IF name = Missing \/ email = Missing \/ password = Missing
       THEN /\ resp' = Response("register", 400, "Name, email, and password are required")
            /\ reg' = reg
       ELSE IF FindByEmail(email) # {}
       THEN /\ resp' = Response("register", 400, "Email already registered")
            /\ reg' = reg
       ELSE /\ resp' = NoResponse
            /\ reg' = (r :> [pc |-> "insert", id |-> 0, email |-> email,
                             password |-> password,
                             doc |-> NewUser(name, email, password, now)]) @@ reg

\* the first user.save(): validation, the pre-save hook, the insert
RegisterInsert(r) ==
    /\ r \in DOMAIN reg
    /\ reg[r].pc = "insert"
    /\ RegUnchanged
    /\ UNCHANGED <<regHits, held>>
    /\ IF ~ValidUser(reg[r].doc)
       THEN /\ resp' = Response("register", 400, "ValidationError")
            /\ reg' = Done(r)
            /\ UNCHANGED <<users, plain>>
       ELSE IF EmailTaken(reg[r].doc.email)
       THEN /\ resp' = Response("register", 400, "E11000 duplicate key")
            /\ reg' = Done(r)
            /\ UNCHANGED <<users, plain>>
       ELSE LET id  == FreshUserId
                doc == PreSave(reg[r].doc, UserFields, now)
            IN  /\ users' = (id :> doc) @@ users
                /\ plain' = [plain EXCEPT ![id] = reg[r].password]
                /\ reg' = [reg EXCEPT ![r].pc = "update", ![r].id = id, ![r].doc = doc]
                /\ resp' = NoResponse

\* generateEmailVerificationToken, the second user.save() and the response
RegisterUpdate(r) ==
    /\ r \in DOMAIN reg
    /\ reg[r].pc = "update"
    /\ RegUnchanged
    /\ UNCHANGED <<regHits, plain>>
    /\ LET id  == reg[r].id
           doc == PreSave(GenerateEmailVerificationToken(id, reg[r].doc, now),
                          {"emailVerificationToken", "emailVerificationExpires"}, now)
       IN  /\ users' = [users EXCEPT
                           ![id].emailVerificationToken = doc.emailVerificationToken,
                           ![id].emailVerificationExpires = doc.emailVerificationExpires]
           /\ held' = [held EXCEPT ![id] = Received(id, doc, now)]
           /\ resp' = RegisterResponse(id, doc, now)
           /\ reg' = Done(r)

-----------------------------------------------------------------------------
(* routes/auth: POST /login *)

LoginResponse(id, doc, t) ==
    [Response("login", 200, "") EXCEPT
        !.user = Without(doc, {"password", "emailVerificationToken",
                               "emailVerificationExpires", "passwordResetToken",
                               "passwordResetExpires"}),
        !.token = GenerateAuthToken(id, doc, t)]

Login(email, password) ==
    /\ loginHits' = Count(loginHits, LoginMax)
    /\ UNCHANGED <<products, nextPid, now, regHits, plain, creator, reg>>
    /\ IF Limited(loginHits, LoginMax)
       THEN /\ resp' = Response("login", 429, "Too many login attempts")
            /\ UNCHANGED <<users, fails, sinceExpiry, held>>
       ELSE IF email = Missing \/ password = Missing
       THEN /\ resp' = Response("login", 400, "Email and password are required")
            /\ UNCHANGED <<users, fails, sinceExpiry, held>>
       ELSE IF FindByEmail(email) = {}
       THEN /\ resp' = Response("login", 401, "Invalid credentials")
            /\ UNCHANGED <<users, fails, sinceExpiry, held>>
       ELSE LET u == CHOOSE x \in FindByEmail(email) : TRUE
                user == users[u]
            IN  IF IsLocked(user, now)
                THEN /\ resp' = Response("login", 423, "Account is temporarily locked")
                     /\ UNCHANGED <<users, fails, sinceExpiry, held>>
                ELSE IF ~ComparePassword(user, password)
                THEN /\ users' = [users EXCEPT ![u] = IncLoginAttempts(@, now)]
                     /\ resp' = Response("login", 401, "Invalid credentials")
                     /\ NoteFailure(u)
                     /\ UNCHANGED held
                ELSE /\ users' = [users EXCEPT ![u] = ResetLoginAttempts(@, now)]
                     /\ resp' = LoginResponse(u, user, now)
                     /\ NoteSuccess(u)
                     /\ held' = [held EXCEPT ![u].auth = GenerateAuthToken(u, user, now)]

-----------------------------------------------------------------------------
(* routes/auth: POST /login as its database round trips, for requests that
   overlap *)

\* this.updateOne(updates) of incLoginAttempts: updates is computed from the
\* copy that the request read, and applied to the stored document
UpdateOneLoginAttempts(copy, stored, t) ==
    IF copy.lockUntil # Unset /\ copy.lockUntil < t
    THEN [stored EXCEPT !.lockUntil = Unset, !.loginAttempts = 1]
    ELSE IF copy.loginAttempts + 1 >= MaxLoginAttempts /\ ~IsLocked(copy, t)
         THEN [stored EXCEPT !.loginAttempts = @ + 1, !.lockUntil = t + LockDuration]
         ELSE [stored EXCEPT !.loginAttempts = @ + 1]

\* the limiter, User.findByEmail, isLocked and comparePassword
LoginFind(r, email, password) ==
    /\ r \notin DOMAIN reg
    /\ loginHits' = Count(loginHits, LoginMax)
    /\ UNCHANGED <<users, products, nextPid, now, regHits, fails, sinceExpiry,
                   plain, creator, held>>
    /\ IF Limited(loginHits, LoginMax)
       THEN resp' = Response("login", 429, "Too many login attempts") /\ reg' = reg
       ELSE IF FindByEmail(email) = {}
       THEN resp' = Response("login", 401, "Invalid credentials") /\ reg' = reg
       ELSE LET u == CHOOSE x \in FindByEmail(email) : TRUE
            IN  IF IsLocked(users[u], now)
                THEN /\ resp' = Response("login", 423, "Account is temporarily locked")
                     /\ reg' = reg
                ELSE /\ resp' = NoResponse
                     /\ reg' = (r :> [pc |-> "login", id |-> u, copy |-> users[u],
                                      valid |-> ComparePassword(users[u], password)])
                                @@ reg

\* user.incLoginAttempts() or user.resetLoginAttempts(), and the answer
LoginUpdate(r) ==
    /\ r \in DOMAIN reg
    /\ reg[r].pc = "login"
    /\ reg[r].id \in DOMAIN users
    /\ reg' = Done(r)
    /\ UNCHANGED <<products, nextPid, now, loginHits, regHits, fails, sinceExpiry,
                   plain, creator>>
    /\ IF reg[r].valid
       THEN /\ users' = [users EXCEPT ![reg[r].id] = ResetLoginAttempts(@, now)]
            /\ resp' = LoginResponse(reg[r].id, reg[r].copy, now)
            /\ held' = [held EXCEPT ![reg[r].id].auth =
                            GenerateAuthToken(reg[r].id, reg[r].copy, now)]
       ELSE /\ users' = [users EXCEPT ![reg[r].id] =
                            UpdateOneLoginAttempts(reg[r].copy, @, now)]
            /\ resp' = Response("login", 401, "Invalid credentials")
            /\ UNCHANGED held

-----------------------------------------------------------------------------
(* middleware/auth *)

\* a token that was not signed with JWT_SECRET
Forged == Token(1, "forged", "admin", Unset)

\* the status the middleware answers with, 0 when it calls next()

AuthNoExpiry(token, roles, t) ==
    IF token = NoToken THEN 401
    ELSE IF token.type = "forged" THEN 401
    ELSE IF roles # {} /\ token.role \notin roles THEN 403
    ELSE 0

Auth(token, roles, t) ==
    IF token = NoToken THEN 401
    ELSE IF token.type = "forged" THEN 401
    ELSE IF token.exp <= t THEN 401
    ELSE IF roles # {} /\ token.role \notin roles THEN 403
    ELSE 0

AuthError(token, status) ==
    IF token = NoToken THEN "No token provided"
    ELSE IF status = 401 THEN "Invalid token"
    ELSE "Forbidden: insufficient role"

AnyRole == {"user", "admin", "moderator"}

-----------------------------------------------------------------------------
(* routes/auth: verify-email, forgot-password, reset-password, me, profile,
   change-password *)

AuthRouteUnchanged ==
    UNCHANGED <<products, nextPid, now, loginHits, regHits, fails, sinceExpiry,
                creator, reg>>

\* a response that leaves the database as it is
Refused(op, status, error) ==
    /\ resp' = Response(op, status, error)
    /\ UNCHANGED <<users, plain, held>>

\* the tokens a client can present: one it received, or none
Presentable == {NoToken} \cup {held[u][k] : u \in UserIds, k \in {"auth", "verify", "reset"}}

VerifyEmail(token) ==
    /\ AuthRouteUnchanged
    /\ IF token = NoToken
       THEN Refused("verify-email", 400, "Verification token is required")
       ELSE IF token.exp <= now
       THEN Refused("verify-email", 500, "jwt expired")
       ELSE IF token.type # "email-verification"
       THEN Refused("verify-email", 400, "Invalid token type")
       ELSE IF token.id \notin DOMAIN users
       THEN Refused("verify-email", 404, "User not found")
       ELSE LET user == users[token.id]
            IN  IF user.emailVerified
                THEN Refused("verify-email", 400, "Email already verified")
                ELSE IF user.emailVerificationExpires # Unset
                        /\ user.emailVerificationExpires < now
                THEN Refused("verify-email", 400, "Verification token has expired")
                ELSE /\ users' = [users EXCEPT ![token.id] =
                            PreSave([user EXCEPT !.emailVerified = TRUE,
                                                 !.emailVerificationToken = NoToken,
                                                 !.emailVerificationExpires = Unset],
                                    {"emailVerified", "emailVerificationToken",
                                     "emailVerificationExpires"}, now)]
                     /\ resp' = Response("verify-email", 200, "")
                     /\ UNCHANGED <<plain, held>>

ForgotPassword(email) ==
    /\ AuthRouteUnchanged
    /\ IF email = Missing
       THEN Refused("forgot-password", 400, "Email is required")
       ELSE IF FindByEmail(email) = {}
       THEN Refused("forgot-password", 200, "")
       ELSE LET u == CHOOSE x \in FindByEmail(email) : TRUE
                doc == PreSave(GeneratePasswordResetToken(u, users[u], now),
                               {"passwordResetToken", "passwordResetExpires"}, now)
            IN  /\ users' = [users EXCEPT ![u] = doc]
                /\ resp' = [Response("forgot-password", 200, "") EXCEPT
                                !.token = doc.passwordResetToken]
                /\ held' = [held EXCEPT ![u].reset = doc.passwordResetToken]
                /\ UNCHANGED plain

ResetPassword(token, newPassword) ==
    /\ AuthRouteUnchanged
    /\ IF token = NoToken \/ newPassword = Missing
       THEN Refused("reset-password", 400, "Token and new password are required")
       ELSE IF token.exp <= now
       THEN Refused("reset-password", 500, "jwt expired")
       ELSE IF token.type # "password-reset"
       THEN Refused("reset-password", 400, "Invalid token type")
       ELSE IF token.id \notin DOMAIN users
       THEN Refused("reset-password", 404, "User not found")
       ELSE LET user == users[token.id]
                doc == [user EXCEPT !.password = Text(newPassword),
                                    !.passwordResetToken = NoToken,
                                    !.passwordResetExpires = Unset]
            IN  IF user.passwordResetExpires # Unset /\ user.passwordResetExpires < now
                THEN Refused("reset-password", 400, "Password reset token has expired")
                ELSE IF ~ValidUser(doc)
                THEN Refused("reset-password", 500, "ValidationError")
                ELSE /\ users' = [users EXCEPT ![token.id] =
                            PreSave(doc, PasswordModified(user, newPassword)
                                         \cup {"passwordResetToken", "passwordResetExpires"},
                                    now)]
                     /\ plain' = [plain EXCEPT ![token.id] = newPassword]
                     /\ resp' = Response("reset-password", 200, "")
                     /\ UNCHANGED held

GetMe(token) ==
    /\ AuthRouteUnchanged
    /\ UNCHANGED <<users, plain, held>>
    /\ IF Auth(token, AnyRole, now) # 0
       THEN resp' = Response("me", Auth(token, AnyRole, now),
                             AuthError(token, Auth(token, AnyRole, now)))
       ELSE IF token.id \notin DOMAIN users
       THEN resp' = Response("me", 404, "User not found")
       ELSE resp' = [Response("me", 200, "") EXCEPT
                        !.user = Without(users[token.id], {"password"})]

PutProfile(token, bio) ==
    /\ AuthRouteUnchanged
    /\ IF Auth(token, AnyRole, now) # 0
       THEN Refused("profile", Auth(token, AnyRole, now),
                    AuthError(token, Auth(token, AnyRole, now)))
       ELSE IF token.id \notin DOMAIN users
       THEN Refused("profile", 404, "User not found")
       ELSE LET doc == PreSave([users[token.id] EXCEPT !.bio = bio], {"bio"}, now)
            IN  /\ users' = [users EXCEPT ![token.id] = doc]
                /\ resp' = [Response("profile", 200, "") EXCEPT
                                !.user = Without(doc, {"password"})]
                /\ UNCHANGED <<plain, held>>

ChangePassword(token, currentPassword, newPassword) ==
    /\ AuthRouteUnchanged
    /\ IF Auth(token, AnyRole, now) # 0
       THEN Refused("change-password", Auth(token, AnyRole, now),
                    AuthError(token, Auth(token, AnyRole, now)))
       ELSE IF currentPassword = Missing \/ newPassword = Missing
       THEN Refused("change-password", 400, "Current and new password are required")
       ELSE IF token.id \notin DOMAIN users
       THEN Refused("change-password", 404, "User not found")
       ELSE LET user == users[token.id]
                doc == [user EXCEPT !.password = Text(newPassword)]
            IN  IF ~ComparePassword(user, currentPassword)
                THEN Refused("change-password", 401, "Current password is incorrect")
                ELSE IF ~ValidUser(doc)
                THEN Refused("change-password", 400, "ValidationError")
                ELSE /\ users' = [users EXCEPT ![token.id] =
                            PreSave(doc, PasswordModified(user, newPassword), now)]
                     /\ plain' = [plain EXCEPT ![token.id] = newPassword]
                     /\ resp' = Response("change-password", 200, "")
                     /\ UNCHANGED held

-----------------------------------------------------------------------------
(* The clock.  One step is an hour, which ends the window of both limiters. *)

Elapse(limit) ==
    /\ now < limit
    /\ now' = now + 1
    /\ loginHits' = 0
    /\ regHits' = 0
    /\ resp' = NoResponse
    /\ UNCHANGED <<users, products, nextPid, fails, sinceExpiry, plain, creator,
                   held, reg>>

-----------------------------------------------------------------------------
Tick == Elapse(MaxTime)

\* hours go by, up to MaxClock
MaxClock == 192

Later(hours) ==
    /\ now + hours <= MaxClock
    /\ now' = now + hours
    /\ loginHits' = 0
    /\ regHits' = 0
    /\ resp' = NoResponse
    /\ UNCHANGED <<users, products, nextPid, fails, sinceExpiry, plain, creator,
                   held, reg>>

-----------------------------------------------------------------------------
(* The state of a fresh deployment: both collections empty *)

EmptyDb ==
    /\ users = <<>>
    /\ products = <<>>
    /\ nextPid = 1
    /\ now = 0
    /\ loginHits = 0
    /\ regHits = 0
    /\ resp = NoResponse
    /\ fails = [u \in UserIds |-> 0]
    /\ sinceExpiry = [u \in UserIds |-> 0]
    /\ plain = [u \in UserIds |-> ""]
    /\ creator = <<>>
    /\ held = [u \in UserIds |-> [auth |-> NoToken, verify |-> NoToken, reset |-> NoToken]]
    /\ reg = <<>>

(* Registration and login, one request at a time *)

InitLogin == EmptyDb

NextLogin ==
    \/ \E e \in {"a@x.com", "A@X.com"} : Register("Ann", e, "Abcdef12")
    \/ \E e \in EmailInputs, p \in Passwords : Login(e, p)
    \/ Tick

SpecLogin == InitLogin /\ [][NextLogin]_vars

-----------------------------------------------------------------------------
(* models/Product *)

NRand == 1

ProductIds == 1..MaxProducts

\* inventory.sku: a supplied string, or SKU-<Date.now()>-<random>
Sku(text, t, r) == [text |-> text, time |-> t, rand |-> r]

NoSku == Sku("", Unset, 0)

GenerateSku(t, r) == Sku("SKU", t, r)

\* the fields of productData that the service reads; an absent string is
\* Missing, an absent number is Unset
ProductData(name, price, category, location, sku) ==
    [name |-> name, price |-> price, category |-> category,
     location |-> location, sku |-> sku]

CreateInputs ==
    { ProductData("Lamp", 5, "books", "here", NoSku),
      ProductData("Lamp", 5, "books", "here", Sku("K1", Unset, 0)),
      ProductData(Missing, 5, "books", "here", NoSku),
      ProductData("Lamp", 0, "books", "here", NoSku),
      ProductData("Lamp", -5, "books", "here", NoSku),
      ProductData("Lamp", 5, "books", Missing, NoSku) }

\* an update payload; Unset marks a field the payload does not carry
UpdateData(createdBy, createdAt, price) ==
    [createdBy |-> createdBy, createdAt |-> createdAt, price |-> price]

Quantities == {3, -1}

\* an element of images; isPrimary is false where the caller gave none
Image(url, isPrimary) == [url |-> url, isPrimary |-> isPrimary]

MaxImages == 2

ImageLists ==
    UNION {[1..n -> {Image("a.png", isPrimary) : isPrimary \in BOOLEAN}] :
              n \in 0..MaxImages}

\* productData or updateData with an images list
WithImages(data, images) == [images |-> images] @@ data

\* images.map((image, index) => ({ ...image, isPrimary: index === 0 }))
SetPrimary(images) ==
    [index \in DOMAIN images |-> [images[index] EXCEPT !.isPrimary = (index = 1)]]

NewProduct(data, sku, userId, t) ==
    [ price |-> data.price,
      images |-> IF "images" \in DOMAIN data THEN SetPrimary(data.images) ELSE <<>>,
      quantity |-> 0,
      sku |-> sku,
      createdBy |-> userId,
      createdAt |-> t ]

\* the schema validators: price and inventory.quantity have min 0
ValidProduct(doc) == doc.price >= 0 /\ doc.quantity >= 0

\* the unique index on inventory.sku
SkuTaken(sku, except) ==
    \E q \in DOMAIN products : q # except /\ products[q].sku = sku

\* JavaScript's !value: of a string or absent string, of a number or absent number
Falsy(v) == v = Missing \/ v = ""

FalsyNumber(v) == v = Unset \/ v = 0

IncProductsListedAlwaysUp(userId, d) ==
    IF userId \in DOMAIN users
    THEN [users EXCEPT ![userId].productsListed = @ + 1]
    ELSE users

\* User.findByIdAndUpdate(userId, {$inc: {'stats.productsListed': d}})
IncProductsListed(userId, d) ==
    IF userId \in DOMAIN users
    THEN [users EXCEPT ![userId].productsListed = @ + d]
    ELSE users

\* what $set does with the fields the payload carries
ApplyUpdate(doc, set) ==
    [doc EXCEPT !.createdBy = IF set.createdBy # Unset THEN set.createdBy ELSE @,
                !.createdAt = IF set.createdAt # Unset THEN set.createdAt ELSE @,
                !.price = IF set.price # Unset THEN set.price ELSE @,
                !.images = IF "images" \in DOMAIN set THEN set.images ELSE @]

-----------------------------------------------------------------------------
(* services/productService: each call as one step *)

FirstMissing(data) ==
    IF Falsy(data.name) THEN "name is required"
    ELSE IF FalsyNumber(data.price) THEN "price is required"
    ELSE IF Falsy(data.category) THEN "category is required"
    ELSE IF Falsy(data.location) THEN "location is required"
    ELSE ""

ServiceUnchanged ==
    UNCHANGED <<now, loginHits, regHits, fails, sinceExpiry, plain, held, reg>>

Thrown(op, message) ==
    /\ resp' = Response(op, 0, message)
    /\ UNCHANGED <<users, products, nextPid, creator>>

CreateProduct(data, userId, r) ==
    /\ nextPid <= MaxProducts
    /\ IF FirstMissing(data) # ""
       THEN Thrown("createProduct", FirstMissing(data))
       ELSE LET sku == IF Falsy(data.sku.text) THEN GenerateSku(now, r) ELSE data.sku
                doc == NewProduct(data, sku, userId, now)
            IN  IF ~ValidProduct(doc)
                THEN Thrown("createProduct", "ValidationError")
                ELSE IF SkuTaken(sku, 0)
                THEN Thrown("createProduct", "E11000 duplicate key")
                ELSE /\ products' = (nextPid :> doc) @@ products
                     /\ nextPid' = nextPid + 1
                     /\ creator' = (nextPid :> [by |-> userId, at |-> now]) @@ creator
                     /\ users' = IncProductsListed(userId, 1)
                     /\ resp' = Response("createProduct", 0, "")
    /\ ServiceUnchanged

\* const { createdBy, createdAt, ...allowedUpdates } = updateData
Strip(updateData) == [updateData EXCEPT !.createdBy = Unset, !.createdAt = Unset]

OwnerCheckSkipped(id, userId) == TRUE

\* product.createdBy.toString() === userId
IsOwner(id, userId) == products[id].createdBy = userId

UpdateProduct(id, updateData, userId) ==
    /\ IF id \notin DOMAIN products
       THEN Thrown("updateProduct", "Product not found")
       ELSE IF ~IsOwner(id, userId)
       THEN Thrown("updateProduct", "You can only update your own products")
       ELSE IF ~ValidProduct(ApplyUpdate(products[id], Strip(updateData)))
       THEN Thrown("updateProduct", "ValidationError")
       ELSE /\ products' = [products EXCEPT ![id] = ApplyUpdate(@, Strip(updateData))]
            /\ resp' = Response("updateProduct", 0, "")
            /\ UNCHANGED <<users, nextPid, creator>>
    /\ ServiceUnchanged

DeleteProduct(id, userId) ==
    /\ IF id \notin DOMAIN products
       THEN Thrown("deleteProduct", "Product not found")
       ELSE IF ~IsOwner(id, userId)
       THEN Thrown("deleteProduct", "You can only delete your own products")
       ELSE /\ products' = [q \in (DOMAIN products) \ {id} |-> products[q]]
            /\ users' = IncProductsListed(userId, -1)
            /\ resp' = Response("deleteProduct", 0, "")
            /\ UNCHANGED <<nextPid, creator>>
    /\ ServiceUnchanged

UpdateInventory(id, quantity, userId) ==
    /\ IF id \notin DOMAIN products
       THEN Thrown("updateInventory", "Product not found")
       ELSE IF ~IsOwner(id, userId)
       THEN Thrown("updateInventory", "You can only update your own products")
       ELSE IF ~ValidProduct([products[id] EXCEPT !.quantity = quantity])
       THEN Thrown("updateInventory", "ValidationError")
       ELSE /\ products' = [products EXCEPT ![id].quantity = quantity]
            /\ resp' = Response("updateInventory", 0, "")
            /\ UNCHANGED <<users, nextPid, creator>>
    /\ ServiceUnchanged

-----------------------------------------------------------------------------
(* services/productService: getProductById, and updateProduct, deleteProduct
   and updateInventory as their two database round trips, for calls that run
   concurrently *)

CallUnchanged ==
    UNCHANGED <<now, loginHits, regHits, fails, sinceExpiry, plain, held>>

\* a call that has read the product and not yet written
Call(op, id, userId, updateData, quantity) ==
    [pc |-> op, id |-> id, userId |-> userId, data |-> updateData,
     quantity |-> quantity]

\* Product.findById and the two checks on what it returned
Find(r, call) ==
    /\ r \notin DOMAIN reg
    /\ CallUnchanged
    /\ UNCHANGED <<users, products, nextPid, creator>>
    /\ IF call.id \notin DOMAIN products
       THEN resp' = Response(call.pc, 0, "Product not found") /\ reg' = reg
       ELSE IF ~IsOwner(call.id, call.userId)
       THEN /\ resp' = Response(call.pc, 0,
                                IF call.pc = "deleteProduct"
                                THEN "You can only delete your own products"
                                ELSE "You can only update your own products")
            /\ reg' = reg
       ELSE resp' = NoResponse /\ reg' = (r :> call) @@ reg

UpdateProductFind(r, id, updateData, userId) ==
    Find(r, Call("updateProduct", id, userId, updateData, Unset))

\* Product.findByIdAndUpdate(id, allowedUpdates, {new: true, runValidators: true})
\* and return of what it gave, null when the product is gone
UpdateProductWrite(r) ==
    /\ r \in DOMAIN reg
    /\ reg[r].pc = "updateProduct"
    /\ CallUnchanged
    /\ reg' = Done(r)
    /\ UNCHANGED <<users, nextPid, creator>>
    /\ LET set == Strip(reg[r].data)
       IN  IF set.price # Unset /\ set.price < 0
           THEN resp' = Response("updateProduct", 0, "ValidationError")
                /\ UNCHANGED products
           ELSE IF reg[r].id \notin DOMAIN products
           THEN resp' = Response("updateProduct", 0, "") /\ UNCHANGED products
           ELSE /\ products' = [products EXCEPT ![reg[r].id] = ApplyUpdate(@, set)]
                /\ resp' = Response("updateProduct", 0, "")

DeleteProductFind(r, id, userId) ==
    Find(r, Call("deleteProduct", id, userId, UpdateData(Unset, Unset, Unset), Unset))

\* Product.findByIdAndDelete(id), then the $inc of the caller's counter
DeleteProductWrite(r) ==
    /\ r \in DOMAIN reg
    /\ reg[r].pc = "deleteProduct"
    /\ CallUnchanged
    /\ reg' = Done(r)
    /\ products' = [q \in (DOMAIN products) \ {reg[r].id} |-> products[q]]
    /\ users' = IncProductsListed(reg[r].userId, -1)
    /\ resp' = Response("deleteProduct", 0, "")
    /\ UNCHANGED <<nextPid, creator>>

UpdateInventoryFind(r, id, quantity, userId) ==
    Find(r, Call("updateInventory", id, userId, UpdateData(Unset, Unset, Unset), quantity))

\* product.save() of the document that was read.  When the product is gone
\* the update matches nothing: save() throws DocumentNotFoundError, or in
\* older Mongoose versions resolves without having stored anything
UpdateInventorySave(r) ==
    /\ r \in DOMAIN reg
    /\ reg[r].pc = "updateInventory"
    /\ CallUnchanged
    /\ reg' = Done(r)
    /\ UNCHANGED <<users, nextPid, creator>>
    /\ IF reg[r].quantity < 0
       THEN resp' = Response("updateInventory", 0, "ValidationError")
            /\ UNCHANGED products
       ELSE IF reg[r].id \notin DOMAIN products
       THEN /\ \E message \in {"DocumentNotFoundError", ""} :
                  resp' = Response("updateInventory", 0, message)
            /\ UNCHANGED products
       ELSE /\ products' = [products EXCEPT ![reg[r].id].quantity = reg[r].quantity]
            /\ resp' = Response("updateInventory", 0, "")

\* Product.findById(id), with populate('createdBy', 'name email ...') on request
GetProductById(id, populate) ==
    /\ UNCHANGED <<users, products, nextPid, now, loginHits, regHits, fails,
                   sinceExpiry, plain, creator, held, reg>>
    /\ IF id \notin DOMAIN products
       THEN resp' = Response("getProductById", 0, "Product not found")
       ELSE resp' = [Response("getProductById", 0, "") EXCEPT
                        !.sellers = IF populate /\ products[id].createdBy \in DOMAIN users
                                    THEN {[name |-> users[products[id].createdBy].name,
                                           email |-> users[products[id].createdBy].email]}
                                    ELSE {}]

-----------------------------------------------------------------------------
(* routes/products: PUT and DELETE /api/products/:id *)

RouteUnchanged ==
    UNCHANGED <<users, nextPid, now, loginHits, regHits, fails, sinceExpiry, plain,
                creator, held, reg>>

PutProduct(token, id, body) ==
    /\ RouteUnchanged
    /\ IF Auth(token, {"admin"}, now) # 0
       THEN /\ resp' = Response("PUT /products/:id", Auth(token, {"admin"}, now),
                                AuthError(token, Auth(token, {"admin"}, now)))
            /\ UNCHANGED products
       ELSE IF id \in DOMAIN products /\ ~ValidProduct(ApplyUpdate(products[id], body))
       THEN /\ resp' = Response("PUT /products/:id", 400, "ValidationError")
            /\ UNCHANGED products
       ELSE IF id \notin DOMAIN products
       THEN /\ resp' = Response("PUT /products/:id", 404, "Product not found")
            /\ UNCHANGED products
       ELSE /\ products' = [products EXCEPT ![id] = ApplyUpdate(@, body)]
            /\ resp' = Response("PUT /products/:id", 200, "")

DeleteProductRoute(token, id) ==
    /\ RouteUnchanged
    /\ IF Auth(token, {"admin"}, now) # 0
       THEN /\ resp' = Response("DELETE /products/:id", Auth(token, {"admin"}, now),
                                AuthError(token, Auth(token, {"admin"}, now)))
            /\ UNCHANGED products
       ELSE IF id \notin DOMAIN products
       THEN /\ resp' = Response("DELETE /products/:id", 404, "Product not found")
            /\ UNCHANGED products
       ELSE /\ products' = [q \in (DOMAIN products) \ {id} |-> products[q]]
            /\ resp' = Response("DELETE /products/:id", 200, "")

-----------------------------------------------------------------------------
(* routes/products: GET /api/products and GET /api/products/search *)

\* populate(path, 'name email'): the selected fields of the referenced user
Only(doc, paths) == [f \in (DOMAIN doc) \cap paths |-> doc[f]]

\* the existing products whose createdBy refers to a stored user
WithSeller == {id \in DOMAIN products : products[id].createdBy \in DOMAIN users}

ReadUnchanged ==
    UNCHANGED <<users, products, nextPid, now, loginHits, regHits, fails,
                sinceExpiry, plain, creator, held, reg>>

\* Product.find(query).populate('createdBy', 'name email') when populate = '1'
GetProducts(populate) ==
    /\ ReadUnchanged
    /\ resp' = [Response("products", 200, "") EXCEPT
                    !.sellers = IF populate
                                THEN {Only(users[products[id].createdBy], {"name", "email"}) :
                                         id \in WithSeller}
                                ELSE {}]

\* the $lookup from users as seller and $arrayElemAt 0, when populate = '1':
\* the joined user document, with no projection
SearchProducts(populate) ==
    /\ ReadUnchanged
    /\ resp' = [Response("search", 200, "") EXCEPT
                    !.sellers = IF populate
                                THEN {users[products[id].createdBy] : id \in WithSeller}
                                ELSE {}]

-----------------------------------------------------------------------------
(* models/Product: the searchable fields of a product, the filter that
   advancedSearch and GET /api/products/search build, and what $match does
   with it.  Places are points of a plane with a grid of 1 km. *)

\* Number(value) of a string that is not numeric, and what arithmetic on it gives
NaN == -2

\* productData with the fields the search reads
Listing(name, category, subcategory, brand, condition, status, price, originalPrice, rating, quantity, lat, lng, createdAt) ==
    [name |-> name, category |-> category, subcategory |-> subcategory,
     brand |-> brand, condition |-> condition, status |-> status,
     price |-> price, originalPrice |-> originalPrice, rating |-> rating,
     quantity |-> quantity, lowStockThreshold |-> 5,
     lat |-> lat, lng |-> lng, createdAt |-> createdAt]

Listings ==
    { Listing("Lamp", "home", "light", "Acme", "new", "active", 0, Unset, 0, 0, 1, 1, 0),
      Listing("Book", "books", "novel", "ACME Press", "good", "active", 5, 10, 4, 3, 1, 1, 1),
      Listing("Desk", "home", "office", "Bolt", "new", "sold", 20, 30, 5, 9, 4, 4, 1) }

\* the stored document of a listing that user 1 created
Stored(listing, id) ==
    [sku |-> GenerateSku(listing.createdAt, id), createdBy |-> 1] @@ listing

\* the words the text index holds for a string, and those of a search string
Terms(string) ==
    CASE string \in {"Lamp", "lamp"} -> {"lamp"}
      [] string \in {"Book", "book"} -> {"book"}
      [] string \in {"Desk", "desk"} -> {"desk"}
      [] string \in {"Acme", "acme"} -> {"acme"}
      [] string = "ACME Press" -> {"acme", "press"}
      [] string \in {"Bolt", "bolt"} -> {"bolt"}
      [] OTHER -> {}

\* { $regex: pattern, $options: 'i' } on the brands and patterns above
RegexMatches(brand, pattern) ==
    \/ pattern \in {"acme", "Acme", "ACME"} /\ brand \in {"Acme", "ACME Press"}
    \/ pattern \in {"press", "Press"} /\ brand = "ACME Press"
    \/ pattern \in {"bolt", "Bolt"} /\ brand = "Bolt"

\* a $centerSphere circle, and no circle
Circle(lat, lng, radius) == [lat |-> lat, lng |-> lng, radius |-> radius]

NoCircle == Circle(Unset, Unset, Unset)

\* the filter object: Missing or Unset where it has no such key
Query(text, category, subcategory, brand, condition, status, priceGte, priceLte, ratingGte, quantityGt, geoWithin) ==
    [text |-> text, category |-> category, subcategory |-> subcategory,
     brand |-> brand, condition |-> condition, status |-> status,
     priceGte |-> priceGte, priceLte |-> priceLte, ratingGte |-> ratingGte,
     quantityGt |-> quantityGt, geoWithin |-> geoWithin]

\* $gte and $lte of the server: nothing compares with NaN but NaN
Gte(value, bound) == bound # NaN /\ value >= bound

Lte(value, bound) == bound # NaN /\ value <= bound

\* $geoWithin $centerSphere [[lng, lat], radius]: the stored pair is read in
\* the order of its fields, lat then lng
Within(doc, circle) ==
    (doc.lat - circle.lng) * (doc.lat - circle.lng)
      + (doc.lng - circle.lat) * (doc.lng - circle.lat)
    <= circle.radius * circle.radius

\* does the document pass { $match: query }
Matches(doc, query) ==
    /\ query.text = Missing
          \/ Terms(query.text) \cap (Terms(doc.name) \cup Terms(doc.brand)) # {}
    /\ query.category = Missing \/ doc.category = query.category
    /\ query.subcategory = Missing \/ doc.subcategory = query.subcategory
    /\ query.brand = Missing \/ RegexMatches(doc.brand, query.brand)
    /\ query.condition = Missing \/ doc.condition = query.condition
    /\ query.status = Missing \/ doc.status = query.status
    /\ query.priceGte = Unset \/ Gte(doc.price, query.priceGte)
    /\ query.priceLte = Unset \/ Lte(doc.price, query.priceLte)
    /\ query.ratingGte = Unset \/ Gte(doc.rating, query.ratingGte)
    /\ query.quantityGt = Unset \/ doc.quantity > query.quantityGt
    /\ query.geoWithin = NoCircle \/ Within(doc, query.geoWithin)

\* the filters argument of advancedSearch: typed values, Missing, Unset or
\* FALSE where the caller gave none
Filters(text, category, subcategory, brand, condition, status, minPrice, maxPrice, minRating, inStock, lat, lng, radius) ==
    [text |-> text, category |-> category, subcategory |-> subcategory,
     brand |-> brand, condition |-> condition, status |-> status,
     minPrice |-> minPrice, maxPrice |-> maxPrice, minRating |-> minRating,
     inStock |-> inStock, lat |-> lat, lng |-> lng, radius |-> radius]

IfTruthy(string) == IF Falsy(string) THEN Missing ELSE string

IfTruthyNumber(number) == IF FalsyNumber(number) THEN Unset ELSE number

\* productSchema.statics.advancedSearch
AdvancedSearch(filters) ==
    Query(IfTruthy(filters.text),
          IfTruthy(filters.category),
          IfTruthy(filters.subcategory),
          IfTruthy(filters.brand),
          IfTruthy(filters.condition),
          IfTruthy(filters.status),
          IfTruthyNumber(filters.minPrice),
          IfTruthyNumber(filters.maxPrice),
          IfTruthyNumber(filters.minRating),
          IF filters.inStock THEN 0 ELSE Unset,
          IF filters.lat # Unset /\ ~FalsyNumber(filters.radius)
          THEN Circle(filters.lat, filters.lng, filters.radius)
          ELSE NoCircle)

-----------------------------------------------------------------------------
(* utils/helpers: getPaginationInfo *)

MaxPage == 4
MaxLimit == 4
MaxTotal == 8

CeilAsFloor(n, d) == n \div d

CeilAtLeastOne(n, d) == IF n <= d THEN 1 ELSE IF n % d = 0 THEN n \div d ELSE n \div d + 1

\* Math.ceil(n / d) for integers n >= 0 and d >= 1
Ceil(n, d) == IF n % d = 0 THEN n \div d ELSE n \div d + 1

GetPaginationInfo(page, limit, total) ==
    LET totalPages == Ceil(total, limit)
    IN  [currentPage |-> page,
         totalPages |-> totalPages,
         hasNextPage |-> page < totalPages,
         hasPrevPage |-> page > 1,
         total |-> total,
         limit |-> limit]

\* a call of getPaginationInfo; what it returns is kept as the response body
Paginate(page, limit, total) ==
    /\ resp' = [Response("getPaginationInfo", 0, "") EXCEPT
                    !.body = GetPaginationInfo(page, limit, total)]
    /\ UNCHANGED <<users, products, nextPid, now, loginHits, regHits, fails,
                   sinceExpiry, plain, creator, held, reg>>

-----------------------------------------------------------------------------
(* The search pipeline of productService.searchProducts and of
   GET /api/products/search: $match, $addFields, $sort, $skip, $limit, and
   the count pipeline *)

\* the query parameters of GET /api/products/search: strings, Missing if absent
NoQuery ==
    [text |-> Missing, category |-> Missing, subcategory |-> Missing,
     brand |-> Missing, minPrice |-> Missing, maxPrice |-> Missing,
     condition |-> Missing, status |-> Missing, minRating |-> Missing,
     inStock |-> Missing, lat |-> Missing, lng |-> Missing, radius |-> Missing,
     sortBy |-> Missing, sortOrder |-> Missing, page |-> Missing,
     limit |-> Missing, populate |-> Missing]

\* Number(value) of a query string
Number(string) ==
    CASE string \in {"", "0"} -> 0
      [] string = "1" -> 1
      [] string = "2" -> 2
      [] string = "3" -> 3
      [] string = "4" -> 4
      [] string = "5" -> 5
      [] string = "20" -> 20
      [] string = "-1" -> 0 - 1
      [] OTHER -> NaN

NumberIfTruthy(string) == IF Falsy(string) THEN Unset ELSE Number(string)

\* the filters object that the route builds from req.query
RouteFilters(query) ==
    Query(IfTruthy(query.text),
          IfTruthy(query.category),
          IfTruthy(query.subcategory),
          IfTruthy(query.brand),
          IfTruthy(query.condition),
          IfTruthy(query.status),
          NumberIfTruthy(query.minPrice),
          NumberIfTruthy(query.maxPrice),
          NumberIfTruthy(query.minRating),
          IF query.inStock = "true" THEN 0 ELSE Unset,
          IF ~Falsy(query.lat) /\ ~Falsy(query.lng) /\ ~Falsy(query.radius)
          THEN Circle(Number(query.lat), Number(query.lng), Number(query.radius))
          ELSE NoCircle)

\* a destructuring default: taken when the value is undefined
OrDefault(value, default) == IF value = Missing THEN default ELSE value

OrDefaultNumber(value, default) == IF value = Unset THEN default ELSE value

DefaultPage == 1

DefaultLimit == 20

\* a quotient that the server computes without rounding
Ratio(n, d) == [n |-> n, d |-> d]

\* $lt of the pipeline: a number is less than no missing value
Lt(value, other) == other # Unset /\ value < other

\* $addFields discountPercentage
PipelineDiscount(doc) ==
    IF Lt(doc.price, doc.originalPrice)
    THEN Ratio(100 * (doc.originalPrice - doc.price), doc.originalPrice)
    ELSE Ratio(0, 1)

\* $addFields stockStatus
PipelineStockStatus(doc) ==
    IF doc.quantity = 0 THEN "out-of-stock"
    ELSE IF doc.quantity <= doc.lowStockThreshold THEN "low-stock"
    ELSE "in-stock"

\* Math.round of n / d, for n >= 0 and d > 0
Round(n, d) == (2 * n + d) \div (2 * d)

\* productSchema.virtual('discountPercentage')
DiscountPercentage(doc) ==
    IF ~FalsyNumber(doc.originalPrice) /\ doc.price < doc.originalPrice
    THEN Round(100 * (doc.originalPrice - doc.price), doc.originalPrice)
    ELSE 0

\* the document that leaves $addFields
Item(id) ==
    [id |-> id,
     discountPercentage |-> PipelineDiscount(products[id]),
     stockStatus |-> PipelineStockStatus(products[id])]

\* { [sortBy]: sortOrder === 'desc' ? -1 : 1 }
SortKey(doc, sortBy) == IF sortBy = "price" THEN doc.price ELSE doc.createdAt

InOrder(a, b, sortOrder) == IF sortOrder = "desc" THEN a >= b ELSE a <= b

\* the orders in which $sort may pass the documents on: equal keys come in
\* any order
Sorted(ids, sortBy, sortOrder) ==
    {list \in [1..Cardinality(ids) -> ids] :
        /\ \A i, j \in DOMAIN list : i # j => list[i] # list[j]
        /\ \A i, j \in DOMAIN list :
              i < j => InOrder(SortKey(products[list[i]], sortBy),
                               SortKey(products[list[j]], sortBy), sortOrder)}

SkipPages(page, limit) == IF NaN \in {page, limit} THEN NaN ELSE page * limit

\* const skip = (page - 1) * limit
Skip(page, limit) == IF NaN \in {page, limit} THEN NaN ELSE (page - 1) * limit

\* { $skip: skip }, { $limit: limit }
SkipLimit(list, skip, limit) ==
    LET rest == IF Len(list) > skip THEN Len(list) - skip ELSE 0
    IN  [i \in 1..(IF rest < limit THEN rest ELSE limit) |-> list[skip + i]]

\* the server refuses a $skip that is not a number >= 0, a $limit that is
\* not a number >= 1 and a circle that is not made of numbers
AggregateFails(query, skip, limit) ==
    \/ skip = NaN \/ skip < 0
    \/ limit = NaN \/ limit < 1
    \/ /\ query.geoWithin # NoCircle
       /\ \/ NaN \in {query.geoWithin.lat, query.geoWithin.lng, query.geoWithin.radius}
          \/ query.geoWithin.radius < 0

\* the ids that the count pipeline counts
Matching(query) == {id \in DOMAIN products : Matches(products[id], query)}

\* the object that both searches answer with
SearchResult(list, page, limit, total, filters) ==
    [products |-> [i \in DOMAIN list |-> Item(list[i])],
     pagination |-> [page |-> page, limit |-> limit, total |-> total,
                     pages |-> Ceil(total, limit)],
     filters |-> filters]

\* the joined seller documents of a page
Sellers(list, populate) ==
    IF populate
    THEN {users[products[list[i]].createdBy] :
             i \in {k \in DOMAIN list : list[k] \in WithSeller}}
    ELSE {}

\* the second argument of productService.searchProducts
Options(page, limit, sortBy, sortOrder, populate) ==
    [page |-> page, limit |-> limit, sortBy |-> sortBy, sortOrder |-> sortOrder,
     populate |-> populate]

\* productService.searchProducts(filters, options)
SearchProductsService(filters, options) ==
    LET page == OrDefaultNumber(options.page, DefaultPage)
        limit == OrDefaultNumber(options.limit, DefaultLimit)
        sortBy == OrDefault(options.sortBy, "createdAt")
        sortOrder == OrDefault(options.sortOrder, "desc")
        searchQuery == AdvancedSearch(filters)
        skip == Skip(page, limit)
    IN  /\ ReadUnchanged
        /\ IF AggregateFails(searchQuery, skip, limit)
           THEN resp' = Response("searchProducts", 0, "MongoServerError")
           ELSE \E sorted \in Sorted(Matching(searchQuery), sortBy, sortOrder) :
                  LET list == SkipLimit(sorted, skip, limit)
                  IN  resp' = [Response("searchProducts", 0, "") EXCEPT
                                  !.sellers = Sellers(list, options.populate),
                                  !.body = SearchResult(list, page, limit,
                                              Cardinality(Matching(searchQuery)),
                                              filters)]

\* GET /api/products/search
GetSearch(query) ==
    LET page == IF query.page = Missing THEN DefaultPage ELSE Number(query.page)
        limit == IF query.limit = Missing THEN DefaultLimit ELSE Number(query.limit)
        sortBy == OrDefault(query.sortBy, "createdAt")
        sortOrder == OrDefault(query.sortOrder, "desc")
        populate == OrDefault(query.populate, "1")
        filters == RouteFilters(query)
        skip == Skip(page, limit)
    IN  /\ ReadUnchanged
        /\ IF AggregateFails(filters, skip, limit)
           THEN resp' = Response("search", 500, "MongoServerError")
           ELSE \E sorted \in Sorted(Matching(filters), sortBy, sortOrder) :
                  LET list == SkipLimit(sorted, skip, limit)
                  IN  resp' = [Response("search", 200, "") EXCEPT
                                  !.sellers = Sellers(list, populate = "1"),
                                  !.body = SearchResult(list, page, limit,
                                              Cardinality(Matching(filters)),
                                              query)]

-----------------------------------------------------------------------------
(* A deployment with two accounts: user 1 was given the admin role in the
   database (no route sets a role), user 2 registered through the API *)

Accounts ==
    (1 :> [RegisteredUser(1, "Ann", "a@x.com", "Abcdef12", 0) EXCEPT !.role = "admin"])
    @@ (2 :> RegisteredUser(2, "Bob", "b@x.com", "Zyxwvu98", 0))

UpdateInputs ==
    {UpdateData(Unset, Unset, 7), UpdateData(Unset, Unset, -5), UpdateData(1, 1, 7)}

TwoAccounts ==
    /\ users = Accounts
    /\ products = <<>>
    /\ nextPid = 1
    /\ now = 0
    /\ loginHits = 0
    /\ regHits = 0
    /\ resp = NoResponse
    /\ fails = [u \in UserIds |-> 0]
    /\ sinceExpiry = [u \in UserIds |-> 0]
    /\ plain = [u \in UserIds |-> IF u = 1 THEN "Abcdef12" ELSE IF u = 2 THEN "Zyxwvu98" ELSE ""]
    /\ creator = <<>>
    /\ held = [u \in UserIds |->
                 IF u \in DOMAIN Accounts THEN Received(u, Accounts[u], 0)
                 ELSE [auth |-> NoToken, verify |-> NoToken, reset |-> NoToken]]
    /\ reg = <<>>

(* The product service alone, one call at a time *)

InitService == TwoAccounts

NextService ==
    \/ \E d \in CreateInputs, u \in DOMAIN users, r \in 1..NRand : CreateProduct(d, u, r)
    \/ \E id \in ProductIds, d \in UpdateInputs, u \in DOMAIN users : UpdateProduct(id, d, u)
    \/ \E id \in ProductIds, u \in DOMAIN users : DeleteProduct(id, u)
    \/ \E id \in ProductIds, q \in Quantities, u \in DOMAIN users : UpdateInventory(id, q, u)

SpecService == InitService /\ [][NextService]_vars

(* The product service and the product routes *)

InitProd == TwoAccounts

NextProd ==
    \/ \E d \in CreateInputs, u \in DOMAIN users, r \in 1..NRand : CreateProduct(d, u, r)
    \/ \E id \in ProductIds, d \in UpdateInputs, u \in DOMAIN users : UpdateProduct(id, d, u)
    \/ \E id \in ProductIds, u \in DOMAIN users : DeleteProduct(id, u)
    \/ \E id \in ProductIds, q \in Quantities, u \in DOMAIN users : UpdateInventory(id, q, u)
    \/ \E u \in DOMAIN users, id \in ProductIds, d \in UpdateInputs :
          PutProduct(held[u].auth, id, d)
    \/ \E u \in DOMAIN users, id \in ProductIds : DeleteProductRoute(held[u].auth, id)

SpecProd == InitProd /\ [][NextProd]_vars

(* The product service with calls that run concurrently, and the routes *)

InitRace == TwoAccounts

NextRace ==
    \/ \E u \in DOMAIN users, k \in {"", "K1"} :
          CreateProduct(ProductData("Lamp", 5, "books", "here", Sku(k, Unset, 0)), u, 1)
    \/ \E r \in RequestIds, id \in ProductIds, u \in DOMAIN users :
          UpdateProductFind(r, id, UpdateData(Unset, Unset, 7), u)
    \/ \E r \in RequestIds : UpdateProductWrite(r)
    \/ \E r \in RequestIds, id \in ProductIds, u \in DOMAIN users :
          DeleteProductFind(r, id, u)
    \/ \E r \in RequestIds : DeleteProductWrite(r)
    \/ \E r \in RequestIds, id \in ProductIds, u \in DOMAIN users :
          UpdateInventoryFind(r, id, 3, u)
    \/ \E r \in RequestIds : UpdateInventorySave(r)
    \/ \E id \in ProductIds, populate \in BOOLEAN : GetProductById(id, populate)
    \/ \E id \in ProductIds : PutProduct(held[1].auth, id, UpdateData(Unset, Unset, 7))
    \/ \E id \in ProductIds : DeleteProductRoute(held[1].auth, id)

SpecRace == InitRace /\ [][NextRace]_vars

(* getPaginationInfo, call by call *)

InitPagination == EmptyDb

NextPagination ==
    \E page \in 1..MaxPage, limit \in 1..MaxLimit, total \in 0..MaxTotal :
        Paginate(page, limit, total)

SpecPagination == InitPagination /\ [][NextPagination]_vars

(* The product service with deleteProduct calls that run concurrently *)

NextDeleteRace ==
    \/ \E u \in DOMAIN users, k \in {"", "K1"} :
          CreateProduct(ProductData("Lamp", 5, "books", "here", Sku(k, Unset, 0)), u, 1)
    \/ \E r \in RequestIds, id \in ProductIds, u \in DOMAIN users :
          DeleteProductFind(r, id, u)
    \/ \E r \in RequestIds : DeleteProductWrite(r)

SpecDeleteRace == TwoAccounts /\ [][NextDeleteRace]_vars

(* Email verification over the lifetime of its token *)

NextTokens ==
    \/ \E tok \in Presentable : VerifyEmail(tok)
    \/ \E tok \in Presentable : PutProfile(tok, "hi")
    \/ Later(EmailTokenHours)

SpecTokens == TwoAccounts /\ [][NextTokens]_vars

(* Logins that overlap within one window of the limiter *)

NextLoginRace ==
    \/ \E r \in RequestIds, p \in Passwords : LoginFind(r, "a@x.com", p)
    \/ \E r \in RequestIds : LoginUpdate(r)

SpecLoginRace == TwoAccounts /\ [][NextLoginRace]_vars

(* Products with images, created and updated by their owner *)

NextImages ==
    \/ \E images \in ImageLists, k \in {"", "K1"} :
          CreateProduct(WithImages(ProductData("Lamp", 5, "books", "here",
                                               Sku(k, Unset, 0)), images), 1, 1)
    \/ \E id \in ProductIds, images \in ImageLists, u \in DOMAIN users :
          UpdateProduct(id, WithImages(UpdateData(Unset, Unset, Unset), images), u)

SpecImages == TwoAccounts /\ [][NextImages]_vars

(* The protected routes, called with every kind of token while days go by *)

Bearers == Presentable \cup {Forged}

NextAuth ==
    \/ \E tok \in Bearers : GetMe(tok)
    \/ \E tok \in Bearers : PutProfile(tok, "hi")
    \/ \E tok \in Bearers, id \in ProductIds : DeleteProductRoute(tok, id)
    \/ \E hours \in {EmailTokenHours, AuthTokenHours} : Later(hours)

SpecAuth == TwoAccounts /\ [][NextAuth]_vars

(* Searches of a catalogue that user 1 has listed, through the service and
   through the route *)

\* ids are given in the order of creation
Catalogues ==
    {catalogue \in UNION {[1..n -> Listings] : n \in 0..MaxProducts} :
        \A i, j \in DOMAIN catalogue :
            i < j => catalogue[i].createdAt <= catalogue[j].createdAt}

NoFilters ==
    Filters(Missing, Missing, Missing, Missing, Missing, Missing,
            Unset, Unset, Unset, FALSE, Unset, Unset, Unset)

FilterInputs ==
    { NoFilters,
      [NoFilters EXCEPT !.text = "lamp"],
      [NoFilters EXCEPT !.category = "home"],
      [NoFilters EXCEPT !.subcategory = "novel"],
      [NoFilters EXCEPT !.brand = "acme"],
      [NoFilters EXCEPT !.condition = "new"],
      [NoFilters EXCEPT !.status = "sold"],
      [NoFilters EXCEPT !.minPrice = 5],
      [NoFilters EXCEPT !.maxPrice = 5],
      [NoFilters EXCEPT !.minPrice = 0],
      [NoFilters EXCEPT !.maxPrice = 0],
      [NoFilters EXCEPT !.minPrice = 5, !.maxPrice = 20],
      [NoFilters EXCEPT !.minRating = 4],
      [NoFilters EXCEPT !.inStock = TRUE],
      [NoFilters EXCEPT !.lat = 1, !.lng = 1, !.radius = 1],
      [NoFilters EXCEPT !.lat = 1, !.lng = 1, !.radius = 0],
      [NoFilters EXCEPT !.category = "home", !.maxPrice = 5, !.inStock = TRUE] }

NoOptions == Options(Unset, Unset, Missing, Missing, FALSE)

OptionInputs ==
    {NoOptions, Options(0, 1, Missing, Missing, FALSE),
     Options(1, 0, Missing, Missing, FALSE), Options(1, 1, Missing, Missing, TRUE)}
    \cup {Options(page, 1, "createdAt", "desc", FALSE) : page \in 1..2}
    \cup {Options(page, limit, "price", "asc", FALSE) :
              page \in 1..3, limit \in 1..2}

\* every filter with the default options, and every option without a filter
ServiceInputs ==
    {[filters |-> filters, options |-> NoOptions] : filters \in FilterInputs}
    \cup {[filters |-> NoFilters, options |-> options] : options \in OptionInputs}

QueryInputs ==
    { NoQuery,
      [NoQuery EXCEPT !.text = "desk"],
      [NoQuery EXCEPT !.category = "home"],
      [NoQuery EXCEPT !.brand = "press"],
      [NoQuery EXCEPT !.inStock = "true"],
      [NoQuery EXCEPT !.inStock = "false"],
      [NoQuery EXCEPT !.minPrice = "0"],
      [NoQuery EXCEPT !.maxPrice = "0"],
      [NoQuery EXCEPT !.minPrice = "5"],
      [NoQuery EXCEPT !.maxPrice = "5"],
      [NoQuery EXCEPT !.minPrice = "5", !.maxPrice = "20"],
      [NoQuery EXCEPT !.minPrice = "abc"],
      [NoQuery EXCEPT !.maxPrice = "abc"],
      [NoQuery EXCEPT !.minRating = "4"],
      [NoQuery EXCEPT !.minRating = "abc"],
      [NoQuery EXCEPT !.lat = "1", !.lng = "1", !.radius = "1"],
      [NoQuery EXCEPT !.lat = "abc", !.lng = "1", !.radius = "1"],
      [NoQuery EXCEPT !.lat = "1", !.lng = "1", !.radius = "abc"],
      [NoQuery EXCEPT !.page = "abc"],
      [NoQuery EXCEPT !.limit = "abc"],
      [NoQuery EXCEPT !.page = "0"],
      [NoQuery EXCEPT !.limit = "0"],
      [NoQuery EXCEPT !.page = "-1", !.limit = "1"],
      [NoQuery EXCEPT !.populate = "0"] }
    \cup {[NoQuery EXCEPT !.page = page, !.limit = limit, !.sortBy = "price",
                          !.sortOrder = "asc"] :
              page \in {"1", "2", "3"}, limit \in {"1", "2"}}

InitSearch ==
    \E catalogue \in Catalogues :
        /\ users = [Accounts EXCEPT ![1].productsListed = Len(catalogue)]
        /\ products = [id \in DOMAIN catalogue |-> Stored(catalogue[id], id)]
        /\ nextPid = Len(catalogue) + 1
        /\ now = 1
        /\ loginHits = 0
        /\ regHits = 0
        /\ resp = NoResponse
        /\ fails = [u \in UserIds |-> 0]
        /\ sinceExpiry = [u \in UserIds |-> 0]
        /\ plain = [u \in UserIds |-> IF u = 1 THEN "Abcdef12" ELSE IF u = 2 THEN "Zyxwvu98" ELSE ""]
        /\ creator = [id \in DOMAIN catalogue |-> [by |-> 1, at |-> catalogue[id].createdAt]]
        /\ held = [u \in UserIds |->
                     IF u \in DOMAIN Accounts THEN Received(u, Accounts[u], 0)
                     ELSE [auth |-> NoToken, verify |-> NoToken, reset |-> NoToken]]
        /\ reg = <<>>

NextSearch ==
    \/ \E call \in ServiceInputs : SearchProductsService(call.filters, call.options)
    \/ \E query \in QueryInputs : GetSearch(query)

SpecSearch == InitSearch /\ [][NextSearch]_vars

(* The same catalogues, searched page by page *)

PageInputs ==
    {[filters |-> filters, options |-> options] :
        filters \in {NoFilters, [NoFilters EXCEPT !.category = "home"]},
        options \in OptionInputs}

PageQueries ==
    { NoQuery,
      [NoQuery EXCEPT !.page = "0"],
      [NoQuery EXCEPT !.category = "home", !.page = "2", !.limit = "1"] }
    \cup {[NoQuery EXCEPT !.page = page, !.limit = limit, !.sortBy = "price",
                          !.sortOrder = "asc"] :
              page \in {"1", "2", "3"}, limit \in {"1", "2"}}

NextPages ==
    \/ \E call \in PageInputs : SearchProductsService(call.filters, call.options)
    \/ \E query \in PageQueries : GetSearch(query)

SpecPages == InitSearch /\ [][NextPages]_vars

(* The routes that write a user document, one request at a time *)

InitPassword == EmptyDb

NextPassword ==
    \/ \E p \in Passwords \cup {ShortPassword} : Register("Ann", "a@x.com", p)
    \/ \E tok \in Presentable : VerifyEmail(tok)
    \/ \E e \in {"a@x.com", "b@x.com"} : ForgotPassword(e)
    \/ \E tok \in Presentable, p \in Passwords \cup {ShortPassword} : ResetPassword(tok, p)
    \/ \E tok \in Presentable, c \in Passwords, p \in Passwords \cup {ShortPassword} :
          ChangePassword(tok, c, p)
    \/ \E tok \in Presentable : PutProfile(tok, "hi")
    \/ Tick

SpecPassword == InitPassword /\ [][NextPassword]_vars

(* Registration requests that run concurrently *)

InitReg == EmptyDb

NextReg ==
    \/ \E r \in RequestIds, e \in EmailInputs : RegisterCheck(r, "Ann", e, "Abcdef12")
    \/ \E r \in RequestIds : RegisterInsert(r)
    \/ \E r \in RequestIds : RegisterUpdate(r)

SpecReg == InitReg /\ [][NextReg]_vars

(* The routes whose responses carry user documents *)

InitResponses == EmptyDb

NextResponses ==
    \/ \E e \in {"a@x.com", "b@x.com"} : Register("Ann", e, "Abcdef12")
    \/ \E e \in {"a@x.com", "b@x.com"}, p \in Passwords : Login(e, p)
    \/ \E tok \in Presentable : GetMe(tok)
    \/ \E tok \in Presentable : PutProfile(tok, "hi")
    \/ \E u \in DOMAIN users :
          CreateProduct(ProductData("Lamp", 5, "books", "here", NoSku), u, 1)
    \/ \E populate \in BOOLEAN : GetProducts(populate)
    \/ \E populate \in BOOLEAN : SearchProducts(populate)

SpecResponses == InitResponses /\ [][NextResponses]_vars

-----------------------------------------------------------------------------
(* Properties of the login lockout, under SpecLogin *)

\* the stored user a login request for address e is about
Account(e) == CHOOSE u \in FindByEmail(e) : TRUE

LockInFuture(u) == users[u].lockUntil # Unset /\ users[u].lockUntil > now

LockInPast(u) == users[u].lockUntil # Unset /\ users[u].lockUntil < now

\* the first 5 requests of a limiter window reach the handler
PassesLoginLimiter == loginHits < 5

\* C1: counting the failed password checks of an account from counter 0 and
\* unlocked, with no successful login in between, the account is unlocked with
\* loginAttempts = n after failure n = 1..4, and the 5th failure sets lockUntil
\* to the time of that failure plus 2 hours.
C1_LockedByFifthFailure ==
    [][\A u \in DOMAIN users' :
          /\ fails'[u] \in 1..4 =>
                /\ users'[u].lockUntil = Unset
                /\ users'[u].loginAttempts = fails'[u]
          /\ (u \in DOMAIN users /\ fails[u] = 4 /\ fails'[u] = 5) =>
                /\ users'[u].lockUntil = now + 2
                /\ users'[u].loginAttempts = 5]_vars

C1_Witness ==
    \E u \in DOMAIN users :
        fails[u] = 5 /\ users[u].lockUntil = now + 2 /\ resp.status = 401

\* C2 as stated: every login request for a locked account is answered 423
\* and leaves the account as it is, whatever the password.
C2_EveryLoginWhileLockedIs423 ==
    [][\A e \in EmailInputs, p \in Passwords :
          (Login(e, p) /\ FindByEmail(e) # {} /\ LockInFuture(Account(e))) =>
              resp'.status = 423 /\ users' = users]_vars

\* C2 as amended: a login request for a locked account that the rate limiter
\* lets through is answered 423 whatever the password, one the limiter refuses
\* is answered 429, and neither changes loginAttempts or lockUntil.
C2_LoginWhileLockedIs423Or429 ==
    [][\A e \in EmailInputs, p \in Passwords :
          (Login(e, p) /\ FindByEmail(e) # {} /\ LockInFuture(Account(e))) =>
              /\ resp'.status = (IF PassesLoginLimiter THEN 423 ELSE 429)
              /\ users'[Account(e)].loginAttempts = users[Account(e)].loginAttempts
              /\ users'[Account(e)].lockUntil = users[Account(e)].lockUntil]_vars

C2_Witness ==
    \E u \in DOMAIN users :
        resp.status = 423 /\ LockInFuture(u) /\ users[u].loginAttempts = 5

\* the effect C3 states for a login request on an account whose lock is past
C3_LazyExpiry(e, p) ==
    LET u == Account(e)
    IN  IF plain[u] = p
        THEN /\ resp'.status = 200
             /\ users'[u].loginAttempts = 0
             /\ users'[u].lockUntil = Unset
        ELSE /\ resp'.status = 401
             /\ users'[u].loginAttempts = 1
             /\ users'[u].lockUntil = Unset

\* after the failure that found the lock expired, failures 2..4 leave the
\* account unlocked and the 4th further failure locks it again
C3_RelockAfterFourMore ==
    \A u \in DOMAIN users :
        /\ sinceExpiry'[u] \in 1..4 =>
              /\ users'[u].lockUntil = Unset
              /\ users'[u].loginAttempts = sinceExpiry'[u]
        /\ (sinceExpiry[u] = 4 /\ sinceExpiry'[u] = 5) =>
              users'[u].lockUntil = now + 2

\* C3 as stated: the passing of time clears nothing; the next login request
\* after the lock has passed succeeds with the correct password and clears
\* loginAttempts and lockUntil, and with a wrong one restarts the counter at 1.
C3_NextLoginAfterExpiry ==
    [][/\ (now' # now => users' = users)
       /\ \A e \in EmailInputs, p \in Passwords :
             (Login(e, p) /\ FindByEmail(e) # {} /\ LockInPast(Account(e))) =>
                 C3_LazyExpiry(e, p)
       /\ C3_RelockAfterFourMore]_vars

\* C3 as amended: the same for the next login request that the rate limiter
\* lets through; a request it refuses (429) leaves the account as it is.
C3_NextLoginAfterExpiryUnlessLimited ==
    [][/\ (now' # now => users' = users)
       /\ \A e \in EmailInputs, p \in Passwords :
             (Login(e, p) /\ FindByEmail(e) # {} /\ LockInPast(Account(e))) =>
                 IF PassesLoginLimiter THEN C3_LazyExpiry(e, p)
                 ELSE resp'.status = 429 /\ users' = users
       /\ C3_RelockAfterFourMore]_vars

C3_Witness ==
    \E u \in DOMAIN users :
        sinceExpiry[u] = 5 /\ LockInFuture(u) /\ users[u].loginAttempts = 5

\* the effect C4 states for a login with the correct password
C4_Success(e) ==
    LET u == Account(e)
    IN  /\ resp'.status = 200
        /\ users'[u].loginAttempts = 0
        /\ users'[u].lockUntil = Unset
        /\ users'[u].lastActive = now

\* C4 as stated: every login request with the correct password for an account
\* that is not locked succeeds, resets loginAttempts to 0, leaves the account
\* unlocked and sets lastActive to the time of the login.
C4_CorrectPasswordSucceeds ==
    [][\A e \in EmailInputs, p \in Passwords :
          (/\ Login(e, p) /\ FindByEmail(e) # {}
           /\ ~LockInFuture(Account(e)) /\ plain[Account(e)] = p) =>
              C4_Success(e)]_vars

\* C4 as amended: the same for every such request that the rate limiter lets
\* through (the first 5 login requests of the window).
C4_CorrectPasswordSucceedsUnlessLimited ==
    [][\A e \in EmailInputs, p \in Passwords :
          (/\ Login(e, p) /\ FindByEmail(e) # {} /\ PassesLoginLimiter
           /\ ~LockInFuture(Account(e)) /\ plain[Account(e)] = p) =>
              C4_Success(e)]_vars

\* 4 wrong passwords, then the correct one on the 5th attempt
C4_Witness ==
    \E u \in DOMAIN users :
        /\ resp.status = 200 /\ resp.user.loginAttempts = 4 /\ loginHits = 5
        /\ users[u].loginAttempts = 0 /\ users[u].lockUntil = Unset
        /\ users[u].lastActive = now /\ now > 0

-----------------------------------------------------------------------------
(* Properties of the product service, under SpecService and SpecProd *)

\* the outcome C5 states for a call by user u on the existing product id
C5_OwnerOnly(id, u, refusal) ==
    IF products[id].createdBy # u
    THEN resp'.error = refusal /\ products' = products /\ users' = users
    ELSE resp'.error = ""

\* the same, with the case of a payload the schema validators reject
C5_OwnerOnlyIfValid(id, u, refusal, valid) ==
    IF products[id].createdBy # u
    THEN resp'.error = refusal /\ products' = products /\ users' = users
    ELSE IF valid
    THEN resp'.error = ""
    ELSE resp'.error = "ValidationError" /\ products' = products /\ users' = users

\* C5 as stated: updateProduct, deleteProduct and updateInventory on an
\* existing product fail with the permission error and change nothing when the
\* acting user is not its createdBy, and succeed when the acting user is.
\* (No step is one of these calls with another outcome.)
C5_OnlyTheCreatorSucceeds ==
    [][\A id \in DOMAIN products, u \in DOMAIN users :
          /\ \A d \in UpdateInputs :
                ~ /\ resp'.op = "updateProduct"
                  /\ ~C5_OwnerOnly(id, u, "You can only update your own products")
                  /\ UpdateProduct(id, d, u)
          /\ ~ /\ resp'.op = "deleteProduct"
               /\ ~C5_OwnerOnly(id, u, "You can only delete your own products")
               /\ DeleteProduct(id, u)
          /\ \A q \in Quantities :
                ~ /\ resp'.op = "updateInventory"
                  /\ ~C5_OwnerOnly(id, u, "You can only update your own products")
                  /\ UpdateInventory(id, q, u)]_vars

\* C5 as amended: the creator's call succeeds when the payload passes the
\* schema validators (price and quantity not negative) and otherwise fails
\* with a validation error, changing nothing.
C5_OnlyTheCreatorSucceedsIfValid ==
    [][\A id \in DOMAIN products, u \in DOMAIN users :
          /\ \A d \in UpdateInputs :
                ~ /\ resp'.op = "updateProduct"
                  /\ ~C5_OwnerOnlyIfValid(id, u, "You can only update your own products",
                                          d.price = Unset \/ d.price >= 0)
                  /\ UpdateProduct(id, d, u)
          /\ ~ /\ resp'.op = "deleteProduct"
               /\ ~C5_OwnerOnlyIfValid(id, u, "You can only delete your own products", TRUE)
               /\ DeleteProduct(id, u)
          /\ \A q \in Quantities :
                ~ /\ resp'.op = "updateInventory"
                  /\ ~C5_OwnerOnlyIfValid(id, u, "You can only update your own products",
                                          q >= 0)
                  /\ UpdateInventory(id, q, u)]_vars

\* a user other than the creator was refused the deletion of an existing product
C5_Witness ==
    /\ resp.op = "deleteProduct"
    /\ resp.error = "You can only delete your own products"
    /\ \E id \in DOMAIN products : products[id].quantity = 3 /\ products[id].price = 7

\* C9: every existing product still has the createdBy and createdAt it was
\* created with, whatever updates the service and PUT /api/products/:id made.
C9_OwnerNeverChanges ==
    \A id \in DOMAIN products :
        /\ products[id].createdBy = creator[id].by
        /\ products[id].createdAt = creator[id].at

\* C10: each user's stats.productsListed is the number of existing products
\* whose createdBy is that user.
C10_ListedCountsOwnProducts ==
    \A u \in DOMAIN users :
        users[u].productsListed =
            Cardinality({id \in DOMAIN products : products[id].createdBy = u})

\* a successful delete that leaves its caller with one product of two
C10_Witness ==
    /\ resp.op = "deleteProduct" /\ resp.error = ""
    /\ \E u \in DOMAIN users :
          /\ users[u].productsListed = 1
          /\ Cardinality({id \in DOMAIN products : products[id].createdBy = u}) = 1
          /\ nextPid = 3

-----------------------------------------------------------------------------
(* Properties of the stored password and of the responses *)

\* the user documents a response carries
C6_Documents == {resp.user} \cup resp.sellers

\* C6: no response of register, login, GET /me, PUT /profile, the product
\* listing or the product search carries the password field of a user.
C6_NoPasswordInResponses ==
    \A doc \in C6_Documents : "password" \notin DOMAIN doc

\* C7: the stored password of every user is one bcrypt hash of the plaintext
\* the user chose last, never that plaintext and never a hash of a hash, so
\* comparePassword accepts the current plaintext after every save.
C7_PasswordStoredHashed ==
    \A u \in DOMAIN users :
        /\ users[u].password # Text(plain[u])
        /\ users[u].password = BcryptHash(Text(plain[u]))
        /\ ComparePassword(users[u], plain[u])

\* a profile update saved the user after the password had been changed
C7_Witness ==
    /\ resp.op = "profile" /\ resp.status = 200
    /\ \E u \in DOMAIN users :
          /\ users[u].bio = "hi"
          /\ users[u].lastPasswordChange > users[u].lastActive
          /\ users[u].emailVerified
          /\ ComparePassword(users[u], plain[u])

\* C8: no two stored users have the same email compared case-insensitively,
\* and a registration that reaches its insert when a user with its address
\* (in any letter case) is stored is answered 400 and creates no user.
C8_EmailsUnique ==
    /\ [](\A u, v \in DOMAIN users :
             u # v => Lower(users[u].email) # Lower(users[v].email))
    /\ [][\A r \in DOMAIN reg :
             (/\ RegisterInsert(r)
              /\ \E u \in DOMAIN users : Lower(users[u].email) = Lower(reg[r].email))
             => resp'.status = 400 /\ users' = users]_vars

\* the loser of a race was answered 400 by the unique index
C8_Witness ==
    /\ resp.op = "register" /\ resp.status = 400
    /\ resp.error = "E11000 duplicate key"
    /\ Cardinality(DOMAIN users) = 1

-----------------------------------------------------------------------------
(* Properties of createProduct's required-field check, under SpecService *)

\* one of the four required fields is missing from the input
C11_FieldMissing(d) ==
    d.name = Missing \/ d.price = Unset \/ d.category = Missing \/ d.location = Missing

C11_RequiredErrors ==
    {"name is required", "price is required", "category is required",
     "location is required"}

\* C11: createProduct fails with '<field> is required', storing no product and
\* leaving every counter unchanged, exactly when one of name, price, category,
\* location is missing; an input with all four (price 0 included) passes.
\* (No step is a createProduct call with another outcome.)
C11_RequiredExactlyWhenMissing ==
    [][\A d \in CreateInputs, u \in DOMAIN users, r \in 1..NRand :
          ~ /\ resp'.op = "createProduct"
            /\ ~ /\ C11_FieldMissing(d) <=> resp'.error \in C11_RequiredErrors
                 /\ C11_FieldMissing(d) => products' = products /\ users' = users
            /\ CreateProduct(d, u, r)]_vars

-----------------------------------------------------------------------------
(* Properties of operations on a product that is not stored, under SpecRace *)

\* the outcome C12 states for a service call
C12_NotFound ==
    resp'.error = "Product not found" /\ products' = products /\ users' = users

\* C12: an operation on a product id that has no stored product fails with
\* not-found (the service throws 'Product not found', the routes answer 404)
\* and changes no product and no counter, also when the product went away
\* between the operation's lookup and its write.
\* (No step is such an operation with another outcome.)
C12_MissingProductIsNotFound ==
    [][/\ \A id \in ProductIds \ DOMAIN products :
             /\ \A populate \in BOOLEAN :
                   GetProductById(id, populate) => C12_NotFound
             /\ \A r \in RequestIds, u \in DOMAIN users :
                   \/ UpdateProductFind(r, id, UpdateData(Unset, Unset, 7), u)
                   \/ DeleteProductFind(r, id, u)
                   \/ UpdateInventoryFind(r, id, 3, u)
                   => C12_NotFound
             /\ PutProduct(held[1].auth, id, UpdateData(Unset, Unset, 7)) =>
                   resp'.status = 404 /\ products' = products /\ users' = users
             /\ DeleteProductRoute(held[1].auth, id) =>
                   resp'.status = 404 /\ products' = products /\ users' = users
       /\ \A r \in DOMAIN reg :
             (/\ reg[r].id \notin DOMAIN products
              /\ \/ UpdateProductWrite(r)
                 \/ DeleteProductWrite(r)
                 \/ UpdateInventorySave(r))
             => C12_NotFound]_vars

-----------------------------------------------------------------------------
(* Properties of getPaginationInfo, under SpecPagination *)

\* C17: for page >= 1, limit >= 1 and total >= 0, totalPages is ceil(total /
\* limit), the least number of pages of limit items that hold total items,
\* hasNextPage is true iff page < totalPages and hasPrevPage iff page > 1.
C17_PaginationInfo ==
    resp.op = "getPaginationInfo" =>
        LET info == resp.body
        IN  /\ info.totalPages >= 0
            /\ info.totalPages * info.limit >= info.total
            /\ (info.totalPages - 1) * info.limit < info.total
            /\ info.hasNextPage <=> info.currentPage < info.totalPages
            /\ info.hasPrevPage <=> info.currentPage > 1

\* 7 items in pages of 3, seen from page 2 of 3
C17_Witness ==
    /\ resp.op = "getPaginationInfo"
    /\ resp.body.total = 7 /\ resp.body.limit = 3 /\ resp.body.currentPage = 2
    /\ resp.body.totalPages = 3 /\ resp.body.hasNextPage /\ resp.body.hasPrevPage

\* C18 as stated: when total = 0, totalPages is 0 and both flags are false,
\* for every page >= 1 and limit >= 1.
C18_EmptyTotalBothFlagsFalse ==
    (resp.op = "getPaginationInfo" /\ resp.body.total = 0) =>
        /\ resp.body.totalPages = 0
        /\ ~resp.body.hasNextPage
        /\ ~resp.body.hasPrevPage

\* C18 as amended: when total = 0, totalPages is 0 and hasNextPage is false;
\* hasPrevPage is false on page 1 and true on every later page.
C18_EmptyTotalNoNextPage ==
    (resp.op = "getPaginationInfo" /\ resp.body.total = 0) =>
        /\ resp.body.totalPages = 0
        /\ ~resp.body.hasNextPage
        /\ resp.body.hasPrevPage <=> resp.body.currentPage > 1

\* nothing to show, asked for page 1
C18_Witness ==
    /\ resp.op = "getPaginationInfo"
    /\ resp.body.total = 0 /\ resp.body.currentPage = 1 /\ resp.body.limit = 2
    /\ resp.body.totalPages = 0 /\ ~resp.body.hasNextPage /\ ~resp.body.hasPrevPage

-----------------------------------------------------------------------------
(* Properties of the seller join of the search, under SpecResponses *)

\* C20: when population is requested, the seller a search response carries
\* for a product is one object with the creating user's name and email and no
\* other field of the user document.
C20_SellerIsNameAndEmail ==
    resp.op = "search" =>
        \A seller \in resp.sellers : DOMAIN seller \subseteq {"name", "email"}

-----------------------------------------------------------------------------
(* Properties of the search filter, under SpecSearch *)

\* what the criteria of the filter builder ask of a product, one by one
C13_Satisfies(doc, f) ==
    /\ f.text = Missing
          \/ Terms(f.text) \cap (Terms(doc.name) \cup Terms(doc.brand)) # {}
    /\ f.category = Missing \/ doc.category = f.category
    /\ f.subcategory = Missing \/ doc.subcategory = f.subcategory
    /\ f.brand = Missing \/ RegexMatches(doc.brand, f.brand)
    /\ f.condition = Missing \/ doc.condition = f.condition
    /\ f.status = Missing \/ doc.status = f.status
    /\ f.minPrice = Unset \/ doc.price >= f.minPrice
    /\ f.maxPrice = Unset \/ doc.price <= f.maxPrice
    /\ f.minRating = Unset \/ doc.rating >= f.minRating
    /\ f.inStock => doc.quantity > 0
    /\ Unset \in {f.lat, f.lng, f.radius}
          \/ (doc.lat - f.lat) * (doc.lat - f.lat)
               + (doc.lng - f.lng) * (doc.lng - f.lng) <= f.radius * f.radius

\* the criteria that a query string of well-formed values supplies
C13_Supplied(query) ==
    Filters(query.text, query.category, query.subcategory, query.brand,
            query.condition, query.status,
            IF query.minPrice = Missing THEN Unset ELSE Number(query.minPrice),
            IF query.maxPrice = Missing THEN Unset ELSE Number(query.maxPrice),
            IF query.minRating = Missing THEN Unset ELSE Number(query.minRating),
            query.inStock = "true",
            IF query.lat = Missing THEN Unset ELSE Number(query.lat),
            IF query.lng = Missing THEN Unset ELSE Number(query.lng),
            IF query.radius = Missing THEN Unset ELSE Number(query.radius))

C13_WellFormed(query) ==
    \A value \in {query.minPrice, query.maxPrice, query.minRating, query.lat,
                   query.lng, query.radius, query.page, query.limit} :
        value = Missing \/ Number(value) >= 0

\* the search answered with exactly the products that satisfy f
C13_Exactly(f) ==
    /\ resp.body.pagination.total =
          Cardinality({id \in DOMAIN products : C13_Satisfies(products[id], f)})
    /\ \A i \in DOMAIN resp.body.products :
          C13_Satisfies(products[resp.body.products[i].id], f)

\* C13: the filter built from the search criteria constrains exactly the
\* criteria that were supplied, combined with AND: a product is matched iff
\* it satisfies every supplied criterion, an absent criterion imposes no
\* constraint, and with no criteria the filter matches every product.
C13_FilterIsTheSuppliedCriteria ==
    /\ (resp.op = "searchProducts" /\ resp.error = "") =>
          C13_Exactly(resp.body.filters)
    /\ (resp.op = "search" /\ resp.status = 200
          /\ C13_WellFormed(resp.body.filters)) =>
          C13_Exactly(C13_Supplied(resp.body.filters))

\* the price criterion alone
C14_InRange(doc, f) ==
    /\ f.minPrice = Unset \/ doc.price >= f.minPrice
    /\ f.maxPrice = Unset \/ doc.price <= f.maxPrice

C14_PriceOnly(f) ==
    [f EXCEPT !.minPrice = Unset, !.maxPrice = Unset] = NoFilters

C14_Range(f) ==
    /\ \A i \in DOMAIN resp.body.products :
          C14_InRange(products[resp.body.products[i].id], f)
    /\ C14_PriceOnly(f) =>
          resp.body.pagination.total =
              Cardinality({id \in DOMAIN products : C14_InRange(products[id], f)})

\* C14: minPrice and maxPrice may be supplied alone or together and give an
\* inclusive range: for every supplied numeric bound, 0 included, a product
\* matches the price criterion iff price >= minPrice when minPrice is
\* supplied and price <= maxPrice when maxPrice is supplied.
C14_InclusivePriceRange ==
    /\ (resp.op = "searchProducts" /\ resp.error = "") =>
          C14_Range(resp.body.filters)
    /\ (resp.op = "search" /\ resp.status = 200
          /\ C13_WellFormed(resp.body.filters)) =>
          C14_Range(C13_Supplied(resp.body.filters))

-----------------------------------------------------------------------------
(* Properties of the search on its numeric inputs, under SpecSearch *)

\* a query with a numeric parameter that is no number, or a page or limit
\* below 1
C15_Invalid(query) ==
    \/ \E value \in {query.minPrice, query.maxPrice, query.minRating, query.lat,
                      query.lng, query.radius, query.page, query.limit} :
          value # Missing /\ Number(value) = NaN
    \/ \E value \in {query.page, query.limit} :
          value # Missing /\ Number(value) < 1

\* C15: a search request with an invalid numeric input (a non-numeric string
\* for minPrice, maxPrice, minRating, lat, lng, radius, page or limit, or a
\* page or limit smaller than 1) is rejected with a validation error, status
\* 400, before any query runs.
C15_InvalidNumberIsRejected ==
    [][ \A query \in QueryInputs :
           ~(/\ C15_Invalid(query)
             /\ resp'.op = "search"
             /\ resp'.status # 400
             /\ GetSearch(query)) ]_vars

-----------------------------------------------------------------------------
(* Properties of the pages of a search, under SpecPages *)

\* the answer r is the page of some sorted list of the products ids, and
\* counts them all
C16_IsPage(r, ids, sortBy, sortOrder, page, limit) ==
    /\ \E list \in Sorted(ids, sortBy, sortOrder) :
          LET positions == {n \in ((page - 1) * limit + 1)..(page * limit) :
                               n <= Len(list)}
          IN  /\ Len(r.body.products) = Cardinality(positions)
              /\ \A i \in DOMAIN r.body.products :
                    r.body.products[i].id = list[(page - 1) * limit + i]
    /\ r.body.pagination.total = Cardinality(ids)
    /\ r.body.pagination.pages * limit >= Cardinality(ids)
    /\ (r.body.pagination.pages - 1) * limit < Cardinality(ids)

\* C16: for page >= 1 and limit >= 1, a search returns exactly the matches at
\* positions (page-1)*limit+1 to page*limit of the sorted list of all matching
\* products (fewer when the list ends, none past the end), pagination.total
\* is the number of all matching products whatever the page and the limit,
\* and pagination.pages is ceil(total / limit).
C16_PageOfTheSortedMatches ==
    [][ /\ (resp'.op = "searchProducts" /\ resp'.error = "") =>
            \A call \in PageInputs :
                LET page == OrDefaultNumber(call.options.page, DefaultPage)
                    limit == OrDefaultNumber(call.options.limit, DefaultLimit)
                IN  (/\ page >= 1 /\ limit >= 1
                     /\ resp'.body.filters = call.filters
                     /\ resp'.body.pagination.page = page
                     /\ resp'.body.pagination.limit = limit
                     /\ SearchProductsService(call.filters, call.options))
                    => C16_IsPage(resp', Matching(AdvancedSearch(call.filters)),
                                  OrDefault(call.options.sortBy, "createdAt"),
                                  OrDefault(call.options.sortOrder, "desc"),
                                  page, limit)
        /\ (resp'.op = "search" /\ resp'.status = 200) =>
            \A query \in PageQueries :
                LET page == IF query.page = Missing THEN 1 ELSE Number(query.page)
                    limit == IF query.limit = Missing THEN 20 ELSE Number(query.limit)
                IN  (/\ resp'.body.filters = query
                     /\ page >= 1 /\ limit >= 1
                     /\ GetSearch(query))
                    => C16_IsPage(resp', Matching(RouteFilters(query)),
                                  OrDefault(query.sortBy, "createdAt"),
                                  OrDefault(query.sortOrder, "desc"), page, limit) ]_vars

\* the second page of one, by rising price, of a catalogue of two
C16_Witness ==
    /\ resp.op = "searchProducts" /\ resp.error = ""
    /\ resp.body.pagination = [page |-> 2, limit |-> 1, total |-> 2, pages |-> 2]
    /\ Len(resp.body.products) = 1
    /\ DOMAIN products = {1, 2}
    /\ products[1].price > products[2].price
    /\ resp.body.products[1].id = 1

-----------------------------------------------------------------------------
(* Properties of the derived discount, under SpecSearch *)

\* round(100 * (originalPrice - price) / originalPrice), halves upwards, when
\* originalPrice is set and price is below it, else 0
C19_Discount(doc) ==
    IF doc.originalPrice # Unset /\ doc.price < doc.originalPrice
    THEN CHOOSE r \in 0..100 :
            /\ (2 * r - 1) * doc.originalPrice
                  <= 200 * (doc.originalPrice - doc.price)
            /\ 200 * (doc.originalPrice - doc.price)
                  < (2 * r + 1) * doc.originalPrice
    ELSE 0

\* C19: for every product, the discountPercentage that the search pipeline
\* derives and the discountPercentage virtual of the model are both
\* round(100 * (originalPrice - price) / originalPrice) when originalPrice is
\* set and price < originalPrice, and 0 otherwise, so the two agree.
C19_DiscountIsRounded ==
    (resp.op \in {"searchProducts", "search"} /\ resp.error = "") =>
        \A i \in DOMAIN resp.body.products :
            LET item == resp.body.products[i]
                doc == products[item.id]
            IN  /\ DiscountPercentage(doc) = C19_Discount(doc)
                /\ item.discountPercentage.n
                      = C19_Discount(doc) * item.discountPercentage.d

-----------------------------------------------------------------------------
(* Properties of the auth middleware, under SpecAuth *)

\* the request carries no token that verifies at this time
C21_Unauthenticated(token) ==
    token = NoToken \/ token.type = "forged" \/ token.exp <= now

\* what the middleware in front of a handler may do with the request
C21_Gate(token, roles) ==
    IF C21_Unauthenticated(token)
    THEN resp'.status = 401 /\ UNCHANGED <<users, products>>
    ELSE IF roles # {} /\ token.role \notin roles
    THEN resp'.status = 403 /\ UNCHANGED <<users, products>>
    ELSE resp'.status \in {200, 404}

\* C21: the auth(roles) middleware lets a request reach the handler only if
\* it carries a valid, unexpired token whose role is one of roles (when roles
\* is not empty); otherwise it answers 401 (no token, invalid or expired
\* token) or 403 (role not allowed) and the handler does not run.
C21_OnlyAllowedReachTheHandler ==
    [][ \A tok \in Bearers :
           /\ (resp'.op = "me" /\ GetMe(tok)) => C21_Gate(tok, AnyRole)
           /\ (resp'.op = "profile" /\ PutProfile(tok, "hi")) => C21_Gate(tok, AnyRole)
           /\ \A id \in ProductIds :
                 (resp'.op = "DELETE /products/:id" /\ DeleteProductRoute(tok, id))
                 => C21_Gate(tok, {"admin"}) ]_vars

\* an auth token presented after its week has passed
C21_Witness ==
    /\ resp.op = "me" /\ resp.status = 401 /\ resp.error = "Invalid token"
    /\ now >= AuthTokenHours
    /\ \A u \in DOMAIN users : users[u].bio = "hi"

\* C22: a user whose email is not verified never reaches a protected
\* handler (the request is answered 403), nor does a user whose account is
\* locked (423): the token returned by registration gives no access to
\* GET /me or PUT /profile until verify-email has succeeded.
C22_UnverifiedNeverReachesHandler ==
    (resp.op \in {"me", "profile"} /\ resp.status = 200) =>
        /\ resp.user.emailVerified
        /\ ~IsLocked(resp.user, now)

-----------------------------------------------------------------------------
(* Properties of the token routes, under SpecPassword *)

\* C23: every unexpected failure of a request (a database error, an expired
\* token presented to verify-email or reset-password) is answered with
\* status 500 and a generic body that carries nothing of the underlying
\* error, such as its message.
C23_GenericInternalError ==
    resp.status = 500 => resp.error = "Internal server error"

-----------------------------------------------------------------------------
(* Properties of the stored products, under SpecService and SpecRace *)

\* C24: every product created without an explicit inventory.sku is stored
\* with a SKU of the form SKU-<timestamp>-<random>, a supplied SKU is kept as
\* given, no two stored products share a SKU, and no creation without an
\* explicit SKU fails because of a SKU collision, also when two creations
\* run at the same timestamp.
C24_GeneratedSkuNeverCollides ==
    [][ /\ \A p, q \in DOMAIN products' :
              p # q => products'[p].sku # products'[q].sku
        /\ \A d \in CreateInputs, u \in DOMAIN users, r \in 1..NRand :
              (resp'.op = "createProduct" /\ CreateProduct(d, u, r)) =>
                 IF Falsy(d.sku.text)
                 THEN /\ resp'.error # "E11000 duplicate key"
                      /\ resp'.error = "" => products'[nextPid].sku = GenerateSku(now, r)
                 ELSE resp'.error = "" => products'[nextPid].sku = d.sku ]_vars

\* C25: whenever a stored product has a non-empty images list, exactly one
\* of its images is flagged isPrimary and it is the first one, after
\* createProduct whatever flags the caller supplied and after any later
\* updateProduct, including one that replaces the images list.
C25_FirstImageIsThePrimary ==
    \A id \in DOMAIN products :
        \A index \in DOMAIN products[id].images :
            products[id].images[index].isPrimary <=> index = 1

-----------------------------------------------------------------------------
(* Properties of logins that overlap, under SpecLoginRace *)

\* C26: under every interleaving of concurrent failed logins for one
\* account, whenever the stored loginAttempts is 5 or more the account has
\* been locked (lockUntil is set), so that no more than 5 wrong passwords
\* are evaluated between two successful logins or lock windows.
C26_FiveAttemptsMeanLocked ==
    \A u \in DOMAIN users :
        users[u].loginAttempts >= MaxLoginAttempts => users[u].lockUntil # Unset

-----------------------------------------------------------------------------
(* Properties of deletes that run concurrently, under SpecDeleteRace *)

\* C27: when deleteProduct calls for one product run concurrently the
\* owner's productsListed is decremented once: it is never negative, and
\* once every call has completed it is the number of the owner's existing
\* products.
C27_DeletedOnceDecrementedOnce ==
    \A u \in DOMAIN users :
        /\ users[u].productsListed >= 0
        /\ DOMAIN reg = {} =>
               users[u].productsListed =
                   Cardinality({id \in DOMAIN products : products[id].createdBy = u})

-----------------------------------------------------------------------------
(* Properties of the password-reset token, under SpecPassword *)

\* C28: a password-reset token changes the password at most once: a
\* reset-password call that follows a successful one with the same token is
\* rejected and leaves the stored user as it is.
C28_ResetTokenWorksOnce ==
    [][\A u \in DOMAIN users, p \in Passwords :
          (/\ resp = Response("reset-password", 200, "")
           /\ resp'.op = "reset-password"
           /\ ResetPassword(held[u].reset, p))
          => (resp'.status # 200 /\ users' = users)]_vars

\* C29: the response of POST /forgot-password does not tell whether the
\* email is registered: every answer to a request that carries an email is
\* the answer given for an email nobody registered.
C29_ForgotPasswordTellsNothing ==
    (resp.op = "forgot-password" /\ resp.status # 400)
        => resp = Response("forgot-password", 200, "")

-----------------------------------------------------------------------------
(* Properties of email verification, under SpecTokens *)

\* C30: a verify-email call either verifies the user or, with an expired
\* token, a token of another type or for an already verified user, is
\* answered 400.
C30_VerifyEmailAnswers ==
    resp.op = "verify-email" => resp.status \in {200, 400}

====
